---- MODULE Spec2Model ----
(***************************************************************************)
(* Weapp-Axios: a request-dispatch client for the WeChat mini-program      *)
(* host.  The model follows src/unnamed/part_001: the deep merge of        *)
(* configuration objects, the interceptor manager, the instance factory    *)
(* with its singleton proxy, the adapter classifier, the four adapters     *)
(* and the request pipeline of Axios.prototype.request.                    *)
(*                                                                         *)
(* A JavaScript plain object is a function from PATHS (non-empty tuples   *)
(* of keys) to scalar leaves (strings): {header: {common: {ct: "json"}}}   *)
(* is (<<"header","common","ct">> :> "json").  A key whose value is a      *)
(* plain object is a key that heads a path of length > 1, or that holds    *)
(* the leaf "{}" (the empty plain object).  Booleans, undefined and null   *)
(* are the leaves "true", "false", "undefined", "null".                    *)
(***************************************************************************)
EXTENDS Integers, Sequences, FiniteSets, TLC

VARIABLES
    instances,   \* every Axios object built so far, in order of construction
    singleton,   \* ProxyAxios' closed-over `instance`: 0 (null) or an index
    firstCfg,    \* history: the config of the first singleton-mode call
    last,        \* history: the last factory / manager call and what it returned
    calls,       \* every request() call made so far
    probe,       \* input and output of the last getDefaultAdapter evaluation
    store,       \* host storage: the array of date buckets kept under the library's name
    today,       \* the date the host clock shows, as a day number
    writes,      \* the number of log values written so far: stands for Date.now()
    clockBacks,  \* how often the host clock has been set back
    helper       \* input and output of the last evaluation of a helper function

vars == <<instances, singleton, firstCfg, last, calls, probe, store, today, writes,
          clockBacks, helper>>

----------------------------------------------------------------------------
(* Bounds *)

MaxInstances == 3
MaxHandlers == 2
MaxCallbacks == 2
MaxEvents == 2
MaxSources == 3
MaxUrlLen == 4
MaxParams == 2
MaxDay == 8
MaxWrites == 8
MaxClockBacks == 1
MaxEntries == 302

----------------------------------------------------------------------------
(* Plain objects *)

EmptyObj == [p \in {} |-> ""]

Falsy == {"", "undefined", "null", "false", "0"}

TopKeys(o) == {p[1] : p \in DOMAIN o}

\* objProto.hasOwnProperty.call(o, k)
HasOwn(o, k) == k \in TopKeys(o)

\* utils.isPlainObject(o[k])
IsPlainAt(o, k) ==
    /\ HasOwn(o, k)
    /\ (<<k>> \in DOMAIN o => o[<<k>>] = "{}")

\* o[k] when it is a plain object
Sub(o, k) ==
    LET tails == {Tail(p) : p \in {q \in DOMAIN o : q[1] = k /\ Len(q) > 1}}
    IN  [t \in tails |-> o[<<k>> \o t]]

\* o[k] when it is a scalar; a missing key reads as undefined
Get(o, k) == IF <<k>> \in DOMAIN o THEN o[<<k>>] ELSE "undefined"

\* !!o[k]
Truthy(o, k) == HasOwn(o, k) /\ (IsPlainAt(o, k) \/ Get(o, k) \notin Falsy)

\* o without the key k
Without(o, k) == [p \in {q \in DOMAIN o : q[1] # k} |-> o[p]]

\* o[k] = s, s a scalar
PutLeaf(o, k, s) ==
    LET rest == Without(o, k)
    IN  [p \in DOMAIN rest \cup {<<k>>} |-> IF p = <<k>> THEN s ELSE rest[p]]

\* o[k] = sub, sub a plain object
PutObj(o, k, sub) ==
    IF DOMAIN sub = {}
    THEN PutLeaf(o, k, "{}")
    ELSE LET rest == Without(o, k)
             new == {<<k>> \o t : t \in DOMAIN sub}
         IN  [p \in DOMAIN rest \cup new |->
                 IF p \in new THEN sub[Tail(p)] ELSE rest[p]]

RECURSIVE MergeInto(_, _, _)
\* utils.merge: assignValue applied to every own key of one source
MergeInto(result, src, keys) ==
    IF keys = {} THEN result
    ELSE LET k == CHOOSE x \in keys : TRUE
             assigned ==
                 IF IsPlainAt(result, k) /\ IsPlainAt(src, k)
                 THEN PutObj(result, k,
                             MergeInto(Sub(result, k), Sub(src, k), TopKeys(Sub(src, k))))
                 ELSE IF IsPlainAt(src, k)
                 THEN PutObj(result, k,
                             MergeInto(EmptyObj, Sub(src, k), TopKeys(Sub(src, k))))
                 ELSE PutLeaf(result, k, src[<<k>>])
         IN  MergeInto(assigned, src, keys \ {k})

\* utils.merge(a, b)
Merge(a, b) ==
    MergeInto(MergeInto(EmptyObj, a, TopKeys(a)), b, TopKeys(b))

\* helpers.mergeConfig
mergeConfig(config1, config2) == Merge(config1, config2)

\* a JavaScript value on its way through the pipeline: prim is "obj" for an
\* object (its content in obj) or the scalar itself; tag names the error
\* class of an error; marks lists the handlers that returned it, in order
Value(prim, obj, tag) == [prim |-> prim, obj |-> obj, tag |-> tag, src |-> 0, marks |-> <<>>]

Undefined == Value("undefined", EmptyObj, "")

ObjValue(o) == Value("obj", o, "")

ErrorValue(tag) == Value("obj", EmptyObj, tag)

\* no helper function has been evaluated
NoHelper == [fn |-> "none"]

----------------------------------------------------------------------------
(* Library constants and defaults *)

\* const methods
methods == <<"OPTIONS", "GET", "HEAD", "POST", "PUT", "DELETE">>

MethodSet == {methods[i] : i \in DOMAIN methods}

DEFAULT_METHOD == "GET"

\* wx.getAccountInfoSync().miniProgram.envVersion
EnvVersions == {"develop", "release"}

\* const defaults, after the per-method headers have been added
defaults(envVersion) ==
    LET isRelease == envVersion = "release"
        on == IF isRelease THEN "false" ELSE "true"
        scalars ==
            (<<"useSingleton">> :> "true")
            @@ (<<"adapter">> :> "fn:getDefaultAdapter")
            @@ (<<"timeout">> :> "0")
            @@ (<<"forcedJSONParsing">> :> "true")
            @@ (<<"openLocalPrinter">> :> on)
            @@ (<<"printManager">> :> IF isRelease THEN "undefined" ELSE "obj:PrintManager")
            @@ (<<"openLocalLogger">> :> on)
            @@ (<<"logManager">> :> IF isRelease THEN "undefined" ELSE "obj:LogManager")
            @@ (<<"validateStatus">> :> "fn:validateStatus")
        headerKeys == {"common"} \cup MethodSet
    IN  scalars
        @@ [p \in {<<"header", h, "content-type">> : h \in headerKeys} |-> "application/json"]

----------------------------------------------------------------------------
(* Interceptor manager *)

\* a slot of `handlers` that eject() has set to null
Tomb == [uid |-> 0, fulfilled |-> "null", rejected |-> "null"]

\* new InterceptorManager()
InterceptorManager == <<>>

\* InterceptorManager.prototype.use: the handlers after the push
use(handlers, uid, fulfilled, rejected) ==
    Append(handlers, [uid |-> uid, fulfilled |-> fulfilled, rejected |-> rejected])

\* the id use() returns: this.handlers.length - 1, taken after the push
useId(handlers) == Len(handlers) - 1

\* eject() that removes the slot instead of leaving a hole
ejectSplice(handlers, id) ==
    IF id + 1 \in DOMAIN handlers
    THEN SubSeq(handlers, 1, id) \o SubSeq(handlers, id + 2, Len(handlers))
    ELSE handlers

\* eject() that leaves the handlers as they are
ejectNone(handlers, id) == handlers

\* InterceptorManager.prototype.eject
eject(handlers, id) ==
    IF id + 1 \in DOMAIN handlers /\ handlers[id + 1] # Tomb
    THEN [handlers EXCEPT ![id + 1] = Tomb]
    ELSE handlers

\* InterceptorManager.prototype.forEach: the entries visited, in visiting order
forEach(handlers) == SelectSeq(handlers, LAMBDA h : h # Tomb)

----------------------------------------------------------------------------
(* Instances and the factory *)

\* new Axios(instanceConfig), with the create() closure of createInstance
Axios(instanceConfig) ==
    [defaults |-> instanceConfig,
     request |-> InterceptorManager,
     response |-> InterceptorManager,
     reqIds |-> <<>>,          \* history: ids use() returned, request manager
     respIds |-> <<>>,         \* history: ids use() returned, response manager
     ejected |-> [request |-> {}, response |-> {}],  \* history: ids eject() was given
     createCfg |-> instanceConfig]

\* history: the arguments of the last call of a verb alias
NoAlias == [name |-> "", url |-> Undefined, data |-> Undefined, config |-> Undefined,
            args |-> <<>>, threw |-> FALSE]

\* history: the last call; passed: the objects the caller handed over, as they
\* were before the call and as they are after it
NoLast == [op |-> "none", inst |-> 0, side |-> "", id |-> -1, ret |-> -1,
           cfg |-> EmptyObj, arg |-> EmptyObj, alias |-> NoAlias, passed |-> <<>>]

\* a proxy that builds a new object on every call
ProxyAxiosFresh(defaultConfig) ==
    [insts |-> Append(instances, Axios(defaultConfig)),
     single |-> Len(instances) + 1,
     ret |-> Len(instances) + 1]

\* ProxyAxios = singletonAxios, called through `new`
ProxyAxios(defaultConfig) ==
    IF singleton = 0
    THEN [insts |-> Append(instances, Axios(defaultConfig)),
          single |-> Len(instances) + 1,
          ret |-> Len(instances) + 1]
    ELSE [insts |-> instances, single |-> singleton, ret |-> singleton]

\* createInstance(defaultConfig): what it builds and returns
createInstance(defaultConfig) ==
    IF Truthy(defaultConfig, "useSingleton")
    THEN ProxyAxios(defaultConfig)
    ELSE [insts |-> Append(instances, Axios(defaultConfig)),
          single |-> singleton,
          ret |-> Len(instances) + 1]

\* a direct call of the factory
CreateInstance(cfg) ==
    LET r == createInstance(cfg)
    IN  /\ Len(instances) < MaxInstances
        /\ instances' = r.insts
        /\ singleton' = r.single
        /\ firstCfg' = IF Truthy(cfg, "useSingleton") /\ firstCfg = <<>>
                       THEN <<cfg>> ELSE firstCfg
        /\ last' = [NoLast EXCEPT !.op = "createInstance", !.ret = r.ret, !.cfg = cfg,
                                  !.arg = cfg]
        /\ UNCHANGED <<calls, probe, store, today, writes, clockBacks, helper>>

\* create() that leaves the useSingleton of the overrides as given
createKeepsFlag(parentCfg, instanceConfig) == mergeConfig(parentCfg, instanceConfig)

\* the config instance.create hands to createInstance
\* a create() that leaves its argument as it is
createArgumentKept(instanceConfig) == instanceConfig

\* instanceConfig.useSingleton = false: the caller's object after create()
createArgument(instanceConfig) == PutLeaf(instanceConfig, "useSingleton", "false")

createConfig(parentCfg, instanceConfig) ==
    mergeConfig(parentCfg, createArgument(instanceConfig))

\* instance.create(instanceConfig), on the instance i
Create(i, instanceConfig) ==
    LET cfg == createConfig(instances[i].createCfg, instanceConfig)
        r == createInstance(cfg)
    IN  /\ Len(instances) < MaxInstances
        /\ instances' = r.insts
        /\ singleton' = r.single
        /\ firstCfg' = IF Truthy(cfg, "useSingleton") /\ firstCfg = <<>>
                       THEN <<cfg>> ELSE firstCfg
        /\ last' = [NoLast EXCEPT !.op = "create", !.inst = i, !.ret = r.ret, !.cfg = cfg,
                                  !.arg = instanceConfig,
                                  !.passed = <<[before |-> instanceConfig,
                                                after |-> createArgument(instanceConfig)]>>]
        /\ UNCHANGED <<calls, probe, store, today, writes, clockBacks, helper>>

----------------------------------------------------------------------------
(* Values, handlers and promises *)

\* what the handler registered under uid throws when it is one that throws
Thrown(uid) == [ErrorValue("thrown") EXCEPT !.src = uid]

\* what a handler that hands its argument on returns
Mark(v, uid) == [v EXCEPT !.marks = Append(@, uid)]

\* x || {}
OrEmpty(v) == IF v.prim \in Falsy THEN ObjValue(EmptyObj) ELSE v

Pending == [state |-> "pending", value |-> Undefined]

Fulfilled(v) == [state |-> "fulfilled", value |-> v]

Rejected(v) == [state |-> "rejected", value |-> v]

\* a promise that a later callback settles anew
settleAgain(p, state, v) == [state |-> state, value |-> v]

\* the resolve / reject functions of a promise: only a pending promise settles
settle(p, state, v) ==
    IF p.state = "pending" THEN [state |-> state, value |-> v] ELSE p

Invocation(side, handler, uid, arg) ==
    [side |-> side, handler |-> handler, uid |-> uid, arg |-> arg]

\* promise.then(e.fulfilled, e.rejected) once promise has settled as p
then(p, e, log) ==
    IF p.state = "fulfilled"
    THEN CASE e.fulfilled = "pass" ->
                [p |-> Fulfilled(Mark(p.value, e.uid)),
                 log |-> Append(log, Invocation("response", "fulfilled", e.uid, p.value))]
           [] e.fulfilled = "void" ->
                [p |-> Fulfilled(Undefined),
                 log |-> Append(log, Invocation("response", "fulfilled", e.uid, p.value))]
           [] e.fulfilled = "throw" ->
                [p |-> Rejected(Thrown(e.uid)),
                 log |-> Append(log, Invocation("response", "fulfilled", e.uid, p.value))]
           [] OTHER -> [p |-> p, log |-> log]
    ELSE CASE e.rejected = "ret" ->
                [p |-> Fulfilled(Mark(p.value, e.uid)),
                 log |-> Append(log, Invocation("response", "rejected", e.uid, p.value))]
           [] e.rejected = "throw" ->
                [p |-> Rejected(Mark(p.value, e.uid)),
                 log |-> Append(log, Invocation("response", "rejected", e.uid, p.value))]
           [] OTHER -> [p |-> p, log |-> log]

RECURSIVE responseChain(_, _, _)
\* the while loop over responseInterceptors, run when the dispatch promise settles
responseChain(p, chain, log) ==
    IF chain = <<>> THEN [p |-> p, log |-> log]
    ELSE LET r == then(p, Head(chain), log)
         IN  responseChain(r.p, Tail(chain), r.log)

RECURSIVE requestChainContinue(_, _, _)
\* a loop without the break: after the rejected handler it takes the next pair
requestChainContinue(config, chain, log) ==
    IF chain = <<>>
    THEN [config |-> config, log |-> log, escaped |-> FALSE, error |-> Undefined]
    ELSE LET e == Head(chain)
             called == Append(log, Invocation("request", "fulfilled", e.uid, config))
             caught(err, lg) ==
                 CASE e.rejected = "ret" ->
                        requestChainContinue(config, Tail(chain),
                            Append(lg, Invocation("request", "rejected", e.uid, err)))
                   [] e.rejected = "throw" ->
                        [config |-> config, escaped |-> TRUE, error |-> Mark(err, e.uid),
                         log |-> Append(lg, Invocation("request", "rejected", e.uid, err))]
                   [] OTHER ->
                        [config |-> config, escaped |-> TRUE,
                         error |-> ErrorValue("TypeError"), log |-> lg]
         IN  CASE e.fulfilled = "pass" ->
                    requestChainContinue(Mark(config, e.uid), Tail(chain), called)
               [] e.fulfilled = "void" -> requestChainContinue(Undefined, Tail(chain), called)
               [] e.fulfilled = "throw" -> caught(Thrown(e.uid), called)
               [] OTHER -> caught(ErrorValue("TypeError"), log)

RECURSIVE requestChain(_, _, _)
\* the while loop over requestInterceptors; escaped: an exception left request()
requestChain(config, chain, log) ==
    IF chain = <<>>
    THEN [config |-> config, log |-> log, escaped |-> FALSE, error |-> Undefined]
    ELSE LET e == Head(chain)
             called == Append(log, Invocation("request", "fulfilled", e.uid, config))
             caught(err, lg) ==
                 CASE e.rejected = "ret" ->
                        [config |-> config, escaped |-> FALSE, error |-> Undefined,
                         log |-> Append(lg, Invocation("request", "rejected", e.uid, err))]
                   [] e.rejected = "throw" ->
                        [config |-> config, escaped |-> TRUE, error |-> Mark(err, e.uid),
                         log |-> Append(lg, Invocation("request", "rejected", e.uid, err))]
                   [] OTHER ->
                        [config |-> config, escaped |-> TRUE,
                         error |-> ErrorValue("TypeError"), log |-> lg]
         IN  CASE e.fulfilled = "pass" -> requestChain(Mark(config, e.uid), Tail(chain), called)
               [] e.fulfilled = "void" -> requestChain(Undefined, Tail(chain), called)
               [] e.fulfilled = "throw" -> caught(Thrown(e.uid), called)
               [] OTHER -> caught(ErrorValue("TypeError"), log)

----------------------------------------------------------------------------
(* Adapters and the dispatcher *)

\* a classifier that asks for a truthy filePath before it selects download
getDefaultAdapterTruthy(config) ==
    IF Truthy(config, "name") /\ Truthy(config, "filePath")
    THEN [adapter |-> "uploadFileAdapter", adapterName |-> "wx.uploadFile"]
    ELSE IF ~Truthy(config, "name") /\ Truthy(config, "filePath")
    THEN [adapter |-> "downloadFileAdapter", adapterName |-> "wx.downloadFile"]
    ELSE IF HasOwn(config, "protocols")
    THEN [adapter |-> "connectSocketAdapter", adapterName |-> "wx.connectSocket"]
    ELSE [adapter |-> "requestAdapter", adapterName |-> "wx.request"]

\* getDefaultAdapter, for a config that is an object
getDefaultAdapter(config) ==
    IF Truthy(config, "name") /\ Truthy(config, "filePath")
    THEN [adapter |-> "uploadFileAdapter", adapterName |-> "wx.uploadFile"]
    ELSE IF ~Truthy(config, "name") /\ HasOwn(config, "filePath")
    THEN [adapter |-> "downloadFileAdapter", adapterName |-> "wx.downloadFile"]
    ELSE IF HasOwn(config, "protocols")
    THEN [adapter |-> "connectSocketAdapter", adapterName |-> "wx.connectSocket"]
    ELSE [adapter |-> "requestAdapter", adapterName |-> "wx.request"]

\* the host primitive each adapter function calls
primitiveOf(adapter) ==
    CASE adapter = "uploadFileAdapter" -> "wx.uploadFile"
      [] adapter = "downloadFileAdapter" -> "wx.downloadFile"
      [] adapter = "connectSocketAdapter" -> "wx.connectSocket"
      [] OTHER -> "wx.request"

\* const legalCallbackTasks
legalCallbackTasks ==
    {"onProgressUpdate", "offProgressUpdate", "onHeadersReceived", "offHeadersReceived",
     "onChunkReceived", "offChunkReceived", "onOpen", "onMessage", "onError", "onClose"}

\* the methods of the task handle each host primitive returns
taskMethods(primitive) ==
    CASE primitive = "wx.request" ->
            {"abort", "onHeadersReceived", "offHeadersReceived",
             "onChunkReceived", "offChunkReceived"}
      [] primitive = "wx.connectSocket" ->
            {"close", "send", "onOpen", "onMessage", "onError", "onClose"}
      [] OTHER ->
            {"abort", "onProgressUpdate", "offProgressUpdate",
             "onHeadersReceived", "offHeadersReceived"}

\* utils.isFunction, on a leaf
FunctionLeaves == {"fn:getDefaultAdapter", "fn:validateStatus", "fn:handler"}

isFunction(s) == s \in FunctionLeaves

\* adapterTaskSettle raises a TypeError when a function-valued key of the task
\* spec names a listener registration that the task handle does not have
taskSettleThrows(config, primitive) ==
    /\ Truthy(config, "task")
    /\ IsPlainAt(config, "task")
    /\ \E k \in TopKeys(Sub(config, "task")) :
          /\ isFunction(Get(Sub(config, "task"), k))
          /\ k \in legalCallbackTasks
          /\ k \notin taskMethods(primitive)

\* the task handle a host primitive returns, as the handlers see it
RequestTask == "requestTask"

\* Object.keys order of the task specs in use: they write their keys in the
\* order of this list
TaskKeyOrder ==
    <<"foo", "abort", "onHeadersReceived", "onOpen", "onMessage", "onChunkReceived",
      "onProgressUpdate", "offHeadersReceived", "close", "send", "bar">>

\* what adapterTaskSettle has done: ran, when it was called; listeners, the
\* names of the handle's methods it has called with a requestTaskCallback, in
\* order; invoked, the handlers it has called itself, with their arguments;
\* threw, when it ended with a TypeError
NoBridge == [ran |-> FALSE, listeners |-> <<>>, invoked |-> <<>>, threw |-> FALSE]

RECURSIVE setRequestTask(_, _, _, _)
\* utils.each(configTask, setRequestTask) from the key at position n on
setRequestTask(configTask, primitive, n, done) ==
    IF n > Len(TaskKeyOrder) THEN done
    ELSE LET key == TaskKeyOrder[n]
         IN  IF ~(HasOwn(configTask, key) /\ isFunction(Get(configTask, key)))
             THEN setRequestTask(configTask, primitive, n + 1, done)
             ELSE IF key \in legalCallbackTasks
             THEN (IF key \in taskMethods(primitive)
                   THEN setRequestTask(configTask, primitive, n + 1,
                                       [done EXCEPT !.listeners = Append(@, key)])
                   ELSE [done EXCEPT !.threw = TRUE])
             ELSE setRequestTask(configTask, primitive, n + 1,
                                 [done EXCEPT !.invoked =
                                     Append(@, [key |-> key, args |-> <<RequestTask>>])])

\* a bridge that is left for later
adapterTaskSettleLater(config, primitive) == NoBridge

\* if (config.task) adapterTaskSettle(requestTask, config.task, config)
adapterTaskSettle(config, primitive) ==
    IF ~Truthy(config, "task") THEN NoBridge
    ELSE setRequestTask(IF IsPlainAt(config, "task") THEN Sub(config, "task") ELSE EmptyObj,
                        primitive, 1, [NoBridge EXCEPT !.ran = TRUE])

\* String.prototype.toUpperCase on the method names in use
toUpperCase(s) ==
    CASE s = "get" -> "GET"
      [] s = "post" -> "POST"
      [] s \in {"Put", "put"} -> "PUT"
      [] s = "patch" -> "PATCH"
      [] s = "delete" -> "DELETE"
      [] s = "head" -> "HEAD"
      [] s = "options" -> "OPTIONS"
      [] OTHER -> s

\* String.prototype.toLowerCase on the members of methods
toLowerCase(s) ==
    CASE s = "OPTIONS" -> "options"
      [] s = "GET" -> "get"
      [] s = "HEAD" -> "head"
      [] s = "POST" -> "post"
      [] s = "PUT" -> "put"
      [] s = "DELETE" -> "delete"
      [] OTHER -> s

\* the normalisation without the test against methods
normalMethodNoCheck(config, instDefaults) ==
    IF Truthy(config, "method") THEN toUpperCase(Get(config, "method"))
    ELSE IF Truthy(instDefaults, "method") THEN toUpperCase(Get(instDefaults, "method"))
    ELSE DEFAULT_METHOD

\* the method normalisation of Axios.prototype.request
normalMethod(config, instDefaults) ==
    LET m == IF Truthy(config, "method") THEN toUpperCase(Get(config, "method"))
             ELSE IF Truthy(instDefaults, "method")
             THEN toUpperCase(Get(instDefaults, "method"))
             ELSE DEFAULT_METHOD
    IN  IF m \in MethodSet THEN m ELSE DEFAULT_METHOD

\* the header merge with the layer of the method merged last
dispatchHeaderMethodLast(config) ==
    LET header == Sub(config, "header")
        common == IF IsPlainAt(header, "common") THEN Sub(header, "common") ELSE EmptyObj
        m == Get(config, "method")
        own == IF IsPlainAt(header, m) THEN Sub(header, m) ELSE EmptyObj
        merged == MergeInto(Merge(common, header), own, TopKeys(own))
    IN  [p \in {q \in DOMAIN merged : q[1] \notin MethodSet \cup {"common"}} |-> merged[p]]

\* the header merge of dispatchRequest, for a header that is a plain object
dispatchHeader(config) ==
    LET header == Sub(config, "header")
        common == IF IsPlainAt(header, "common") THEN Sub(header, "common") ELSE EmptyObj
        m == Get(config, "method")
        own == IF IsPlainAt(header, m) THEN Sub(header, m) ELSE EmptyObj
        merged == MergeInto(Merge(common, own), header, TopKeys(header))
    IN  [p \in {q \in DOMAIN merged : q[1] \notin MethodSet \cup {"common"}} |-> merged[p]]

NoSent == [primitive |-> "none", method |-> "", header |-> EmptyObj, bridge |-> NoBridge]

\* adapter(config): the adapter function hands method and header to its host
\* primitive and returns the promise of adapterDecorator
callAdapter(withHeader, adapter) ==
    LET config == PutLeaf(withHeader, "adapterName", adapter.adapterName)
        primitive == primitiveOf(adapter.adapter)
        header == IF primitive = "wx.uploadFile"
                  THEN PutLeaf(Sub(config, "header"), "content-type", "multipart/form-data")
                  ELSE Sub(config, "header")
        method == CASE primitive = "wx.uploadFile" -> "POST"
                    [] primitive = "wx.downloadFile" -> "GET"
                    [] primitive = "wx.connectSocket" -> ""
                    [] OTHER -> Get(config, "method")
    IN  [threw |-> FALSE, error |-> Undefined,
         config |-> PutObj(config, "header", header),
         sent |-> [primitive |-> primitive, method |-> method, header |-> header,
                   bridge |-> adapterTaskSettle(config, primitive)],
         adapterP |-> IF taskSettleThrows(config, primitive)
                      THEN Rejected(ErrorValue("TypeError"))
                      ELSE Pending]

\* the synchronous part of dispatchRequest(v): up to the return of the adapter
dispatchRequest(v) ==
    IF v.prim # "obj"
    THEN [threw |-> TRUE, error |-> ErrorValue("Error:nonConfig"), config |-> EmptyObj,
          sent |-> NoSent, adapterP |-> Pending]
    ELSE IF ~IsPlainAt(v.obj, "header") \/ ~isFunction(Get(v.obj, "adapter"))
    THEN [threw |-> TRUE, error |-> ErrorValue("TypeError"), config |-> v.obj,
          sent |-> NoSent, adapterP |-> Pending]
    ELSE LET withData == IF Truthy(v.obj, "data") THEN v.obj
                         ELSE PutLeaf(v.obj, "data", "{}")
             withHeader == PutObj(withData, "header", dispatchHeader(withData))
         IN  callAdapter(withHeader, getDefaultAdapter(withHeader))

\* utils.isString, on the leaves used as response bodies
StringLeaves == {"str:{a:1}", "str:oops"}

\* JSON.parse on a string leaf: "SyntaxError" when the text is malformed
JSONparse(s) == IF s = "str:{a:1}" THEN "parsed:{a:1}" ELSE "SyntaxError"

\* config.validateStatus, the default of the library
validateStatus(status) ==
    LET n == CASE status = "200" -> 200 [] status = "204" -> 204
               [] status = "404" -> 404 [] OTHER -> -1
    IN  n >= 200 /\ n < 300

\* an onAdapterReject that wraps what the host reported in an error of its own
onAdapterSettledWrapped(config, p) ==
    IF p.state = "rejected" THEN Rejected(ErrorValue("Error:transport")) ELSE p

\* an onAdapterResolve that parses the body whatever the status code is
onAdapterSettledAnyStatus(config, p) ==
    IF p.state = "rejected" THEN p
    ELSE LET rawData == Get(p.value.obj, "data")
         IN  IF Truthy(config, "forcedJSONParsing") /\ rawData \in StringLeaves
             THEN IF JSONparse(rawData) = "SyntaxError"
                  THEN Rejected(ErrorValue("Error:parse"))
                  ELSE Fulfilled([p.value EXCEPT !.obj = PutLeaf(@, "data", JSONparse(rawData))])
             ELSE p

\* the two callbacks dispatchRequest chains on the adapter promise
onAdapterSettled(config, p) ==
    IF p.state = "rejected" THEN p
    ELSE LET response == p.value
             rawData == Get(response.obj, "data")
         IN  IF /\ validateStatus(Get(response.obj, "statusCode"))
                /\ Truthy(config, "forcedJSONParsing")
                /\ rawData \in StringLeaves
             THEN IF JSONparse(rawData) = "SyntaxError"
                  THEN Rejected(ErrorValue("Error:parse"))
                  ELSE Fulfilled([response EXCEPT
                                     !.obj = PutLeaf(@, "data", JSONparse(rawData))])
             ELSE p

\* the printing step of onAdapterResolve: config.printManager.printRequest(...)
\* raises a TypeError when printing is switched on without a print manager
printStep(config, p) ==
    IF /\ p.state = "fulfilled"
       /\ Truthy(config, "openLocalPrinter")
       /\ Get(config, "printManager") # "obj:PrintManager"
    THEN Rejected(ErrorValue("TypeError"))
    ELSE p

\* the promise dispatchRequest returns, once the adapter promise has settled as p
dispatchSettled(config, p) == printStep(config, onAdapterSettled(config, p))

----------------------------------------------------------------------------
(* Log manager: the log store kept under the library's name in host storage *)

\* const MAX_LOG_DAY
MAX_LOG_DAY == 7

\* const MAX_LOG_COUNTS
MAX_LOG_COUNTS == 300

\* what one wx.getStorageSync call does: it returns the stored array ("ok"),
\* throws, or returns a value that is no array: one whose length is at most
\* MAX_LOG_DAY - 1 or that has none ("short"), or a longer string ("long")
ReadOutcomes == {"ok", "throws", "short", "long"}

\* what the write does: wx.setStorageSync succeeds ("ok"); it throws and the
\* catch block ends in a ReferenceError on `length` or gives up ("throws"); it
\* throws, the host has a global `length` above 1 and the second
\* wx.setStorageSync succeeds ("retried")
WriteOutcomes == {"ok", "throws", "retried"}

\* LogManager.prototype.get: arr is the array read, kind tells what else came
logGet(st, r) ==
    CASE r = "ok" -> [kind |-> "array", arr |-> st]
      [] r = "throws" -> [kind |-> "undefined", arr |-> <<>>]
      [] OTHER -> [kind |-> r, arr |-> <<>>]

\* a popleft that drops the newest bucket
popright(st, r) ==
    IF r = "ok" /\ st # <<>> THEN SubSeq(st, 1, Len(st) - 1) ELSE <<>>

\* LogManager.prototype.popleft: the stored array without its first bucket
popleft(st, r) ==
    IF r = "ok" /\ st # <<>> THEN Tail(st) ELSE <<>>

\* the index of the bucket of `date` in logs, 0 when there is none
bucketIndex(logs, date) ==
    IF \E j \in DOMAIN logs : logs[j].date = date
    THEN CHOOSE j \in DOMAIN logs :
            logs[j].date = date /\ \A k \in DOMAIN logs : logs[k].date = date => j <= k
    ELSE 0

\* a push that leaves a full bucket one entry too long
pushValueUnbounded(logs, date, finalValue) ==
    LET index == bucketIndex(logs, date)
    IN  IF index # 0
        THEN [logs EXCEPT ![index].logs = Append(@, finalValue)]
        ELSE Append(logs, [date |-> date, logs |-> <<finalValue>>])

\* the value is pushed on the bucket of `date`, which loses its first entry
\* when it grows beyond MAX_LOG_COUNTS; a date without bucket gets a new one
pushValue(logs, date, finalValue) ==
    LET index == bucketIndex(logs, date)
    IN  IF index # 0
        THEN LET pushed == Append(logs[index].logs, finalValue)
             IN  [logs EXCEPT ![index].logs =
                     IF Len(pushed) > MAX_LOG_COUNTS THEN Tail(pushed) ELSE pushed]
        ELSE Append(logs, [date |-> date, logs |-> <<finalValue>>])

\* LogManager.prototype.set on the store st; r1 is the outcome of the read of
\* set(), r2 of the read of popleft(), w of the write. threw: an exception
\* left set(); wrote: the store was written
logManagerSet(st, date, finalValue, r1, r2, w) ==
    LET read == logGet(st, r1)
        full == \/ read.kind = "long"
                \/ read.kind = "array" /\ Len(read.arr) > MAX_LOG_DAY - 1
    IN  IF read.kind = "short" \/ w = "throws"
        THEN [store |-> st, threw |-> TRUE, wrote |-> FALSE]
        ELSE [store |-> pushValue(IF full THEN popleft(st, r2) ELSE read.arr,
                                  date, finalValue),
              threw |-> FALSE, wrote |-> TRUE]

\* what a set() call can come to, over the outcomes of its storage calls
logRuns(st, date, finalValue) ==
    { logManagerSet(st, date, finalValue, r1, r2, w) :
          r1 \in ReadOutcomes, r2 \in ReadOutcomes, w \in WriteOutcomes }

\* finalValue: adapter name, status code, method, and the time of the write
logValue(config, response, stamp) ==
    <<stamp, Get(config, "adapterName"), Get(response.obj, "statusCode"),
      Get(config, "method")>>

\* a logging step whose exception leaves onAdapterResolve
logStepUncaught(p, threw) ==
    IF threw THEN Rejected(ErrorValue("StorageError")) ELSE p

\* try { config.logManager.set(config, response) } catch (err) {}
logStep(p, threw) == p

\* logManager.set(config, response) called for a wx.request answered with
\* 200, on a host whose storage calls do what they are for
LogSet(limit) ==
    LET run == logManagerSet(store, today, <<writes + 1, "wx.request", "200", "GET">>,
                             "ok", "ok", "ok")
    IN  /\ writes < limit
        /\ store' = run.store
        /\ writes' = writes + 1
        /\ last' = [NoLast EXCEPT !.op = "set"]
        /\ UNCHANGED <<instances, singleton, firstCfg, calls, probe, today, clockBacks, helper>>

\* midnight passes
Tick ==
    /\ today < MaxDay
    /\ today' = today + 1
    /\ last' = NoLast
    /\ UNCHANGED <<instances, singleton, firstCfg, calls, probe, store, writes, clockBacks,
                  helper>>

\* the host clock is set back by a day
ClockBack ==
    /\ today > 1
    /\ clockBacks < MaxClockBacks
    /\ today' = today - 1
    /\ clockBacks' = clockBacks + 1
    /\ last' = NoLast
    /\ UNCHANGED <<instances, singleton, firstCfg, calls, probe, store, writes, helper>>

----------------------------------------------------------------------------
(* utils.merge on objects that have an identity *)

\* a slot of an object holds a scalar or the reference of an object
Scal(s) == [t |-> "s", s |-> s, r |-> 0]

Ref(id) == [t |-> "r", s |-> "", r |-> id]

\* an object of the heap: a plain object ("map"), an array ("arr", its
\* indices as keys) or an object of another class ("other")
Node(kind, slots) == [kind |-> kind, slots |-> slots]

\* the heap before merge is called: two sources with nested plain objects
\* under a shared key, an array that holds a plain object, and an object of
\* another class
SourceHeap ==
    << Node("map", [k \in {"a", "h", "arr", "o"} |->
                       CASE k = "a" -> Scal("1") [] k = "h" -> Ref(2)
                         [] k = "arr" -> Ref(4) [] OTHER -> Ref(6)]),
       Node("map", [k \in {"x", "n"} |-> IF k = "x" THEN Scal("1") ELSE Ref(3)]),
       Node("map", [k \in {"z"} |-> Scal("1")]),
       Node("arr", [k \in {"0", "1"} |-> IF k = "0" THEN Scal("s") ELSE Ref(5)]),
       Node("map", [k \in {"e"} |-> Scal("1")]),
       Node("other", EmptyObj),
       Node("map", [k \in {"a", "b", "h"} |-> IF k = "h" THEN Ref(8) ELSE Scal("2")]),
       Node("map", [k \in {"y", "n"} |-> IF k = "y" THEN Scal("2") ELSE Ref(9)]),
       Node("map", [k \in {"w"} |-> Scal("2")]) >>

\* what merge is handed as a source
MergeSources == { Ref(1), Ref(7), Scal("null"), Scal("undefined") }

\* utils.isPlainObject(cell), utils.isArray(cell)
isPlainCell(h, cell) == cell.t = "r" /\ h[cell.r].kind = "map"

isArrayCell(h, cell) == cell.t = "r" /\ h[cell.r].kind = "arr"

\* object[key] = cell
setSlot(h, id, key, cell) ==
    [h EXCEPT ![id].slots =
        [k \in DOMAIN h[id].slots \cup {key} |-> IF k = key THEN cell ELSE h[id].slots[k]]]

\* utils.each(collection, iteratee) raises a TypeError on undefined:
\* isArrayLike asks hasOwnProperty of it; null is returned at once
eachThrows(cell) == cell = Scal("undefined")

RECURSIVE mergeInto(_, _, _, _)
RECURSIVE eachKey(_, _, _, _)
RECURSIVE assignValue(_, _, _, _)

\* result[key] = value, without a copy
assignValueByReference(h, result, key, value) == setSlot(h, result, key, value)

\* function assignValue(value, key) of utils.merge, on the heap h
assignValue(h, result, key, value) ==
    IF isPlainCell(h, value)
    THEN setSlot(mergeInto(Append(h, Node("map", EmptyObj)), Len(h) + 1,
                           IF key \in DOMAIN h[result].slots
                                 /\ isPlainCell(h, h[result].slots[key])
                           THEN <<h[result].slots[key], value>>
                           ELSE <<value>>,
                           1),
                 result, key, Ref(Len(h) + 1))
    ELSE IF isArrayCell(h, value)
    THEN setSlot(Append(h, h[value.r]), result, key, Ref(Len(h) + 1))
    ELSE setSlot(h, result, key, value)

\* utils.each(source, assignValue) over the keys not yet visited
eachKey(h, result, source, keys) ==
    IF keys = {} THEN h
    ELSE eachKey(assignValue(h, result, CHOOSE k \in keys : TRUE,
                             h[source].slots[CHOOSE k \in keys : TRUE]),
                 result, source, keys \ {CHOOSE k \in keys : TRUE})

\* the loop of utils.merge over its arguments from position i on, for
\* arguments that each() does not throw on
mergeInto(h, result, sources, i) ==
    IF i > Len(sources) THEN h
    ELSE IF sources[i].t = "r"
    THEN mergeInto(eachKey(h, result, sources[i].r, DOMAIN h[sources[i].r].slots),
                   result, sources, i + 1)
    ELSE mergeInto(h, result, sources, i + 1)

\* a merge that fills its first source
mergeIntoFirst(h, sources) ==
    IF \E i \in DOMAIN sources : eachThrows(sources[i])
    THEN [threw |-> TRUE, heap |-> h, result |-> 0]
    ELSE IF sources # <<>> /\ sources[1].t = "r"
    THEN [threw |-> FALSE, heap |-> mergeInto(h, sources[1].r, sources, 2),
          result |-> sources[1].r]
    ELSE [threw |-> FALSE,
          heap |-> mergeInto(Append(h, Node("map", EmptyObj)), Len(h) + 1, sources, 1),
          result |-> Len(h) + 1]

\* utils.merge(...sources): the heap after the call, the result, and whether
\* the call threw
merge(h, sources) ==
    IF \E i \in DOMAIN sources : eachThrows(sources[i])
    THEN [threw |-> TRUE, heap |-> h, result |-> 0]
    ELSE [threw |-> FALSE,
          heap |-> mergeInto(Append(h, Node("map", EmptyObj)), Len(h) + 1, sources, 1),
          result |-> Len(h) + 1]

\* merge(...sources) is evaluated on the source heap
EvalMerge(sources) ==
    /\ helper = NoHelper
    /\ helper' = [fn |-> "merge", sources |-> sources, threw |-> merge(SourceHeap, sources).threw,
                  heap |-> merge(SourceHeap, sources).heap,
                  result |-> merge(SourceHeap, sources).result, changed |-> 0]
    /\ UNCHANGED <<instances, singleton, firstCfg, last, calls, probe, store, today, writes,
                   clockBacks>>

RECURSIVE reachable(_, _, _)
\* the objects reached from the ids in todo through slots of plain objects
\* and arrays
reachable(h, todo, seen) ==
    IF todo = {} THEN seen
    ELSE LET id == CHOOSE x \in todo : TRUE
             next == {h[id].slots[k].r :
                         k \in {j \in DOMAIN h[id].slots : h[id].slots[j].t = "r"}}
         IN  reachable(h, (todo \cup {n \in next : h[n].kind # "other"}) \ (seen \cup {id}),
                       seen \cup {id})

\* the caller changes a plain object or an array of the result of merge
ChangeResult(id) ==
    /\ helper.fn = "merge"
    /\ ~helper.threw
    /\ helper.changed = 0
    /\ id \in reachable(helper.heap, {helper.result}, {})
    /\ helper' = [helper EXCEPT !.heap = setSlot(@, id, "changed", Scal("new")),
                                !.changed = id]
    /\ UNCHANGED <<instances, singleton, firstCfg, last, calls, probe, store, today, writes,
                   clockBacks>>

\* whether the object utils.merge returns is one of its sources
mergeReturnsSource == merge(SourceHeap, <<Ref(1), Ref(7)>>).result \in DOMAIN SourceHeap

\* this.defaults after a request() call: request(), dispatchRequest() and the
\* adapters assign to the object mergeConfig(this.defaults, config) returned
\* and to the header dispatchRequest has merged for it
defaultsAfter(instanceDefaults, call) ==
    IF ~mergeReturnsSource THEN instanceDefaults
    ELSE IF call.dispatched /\ call.sent.primitive # "none" THEN call.config
    ELSE call.merged.obj

\* this.request(config) has returned as call
requested(i, call) ==
    /\ calls' = Append(calls, call)
    /\ instances' = [instances EXCEPT ![i].defaults = defaultsAfter(@, call)]

----------------------------------------------------------------------------
(* Axios.prototype.request *)

\* the per-call configs handed to request()
RequestInputs ==
    { EmptyObj,
      (<<"name">> :> "n") @@ (<<"filePath">> :> "f"),
      (<<"filePath">> :> ""),
      (<<"protocols">> :> "[]"),
      (<<"method">> :> "post") @@ (<<"task", "onOpen">> :> "fn:handler") }

\* what the host hands to the success callback
SuccessPayloads ==
    { ObjValue((<<"statusCode">> :> "200") @@ (<<"data">> :> "str:{a:1}")),
      ObjValue((<<"statusCode">> :> "200") @@ (<<"data">> :> "str:oops")),
      Undefined }

\* what the host hands to the fail callback
FailPayloads == { ObjValue(<<"errMsg">> :> "request:fail"), Undefined }

Reverse(q) == [i \in 1..Len(q) |-> q[Len(q) + 1 - i]]

\* request interceptors collected with push: registration order
requestInterceptorsPush(handlers) == forEach(handlers)

\* requestInterceptors: forEach with unshift(fulfilled, rejected)
requestInterceptors(handlers) == Reverse(forEach(handlers))

\* response interceptors collected with unshift: reverse registration order
responseInterceptorsUnshift(handlers) == Reverse(forEach(handlers))

\* responseInterceptors: forEach with push(fulfilled, rejected)
responseInterceptors(handlers) == forEach(handlers)

\* history: the callback that settled the adapter promise, and its payload
NoSettler == [cb |-> "none", payload |-> Undefined]

\* history: whether logManager.set threw and whether it wrote, for the call
NoLogRun == [threw |-> FALSE, wrote |-> FALSE]

\* history: one stage for each of n interceptor handlers that ran
handlerStages(side, n) == [k \in 1..n |-> side]

\* history: the stages of dispatchRequest(newConfig), which has returned as d:
\* config.adapter(config), then adapter.adapter(config), whose executor calls
\* the host primitive and then, with a task spec, the bridge
dispatchStages(d) ==
    IF d.sent.primitive = "none" THEN <<>>
    ELSE <<"adapter", "primitive">> \o (IF d.sent.bridge.ran THEN <<"bridge">> ELSE <<>>)

\* history: the stages once the adapter promise has settled as adapterP:
\* onAdapterResolve or onAdapterReject, then n handlers of the response loop,
\* then the promise request() returned
settleStagesChainFirst(adapterP, n) ==
    handlerStages("response", n)
    \o (IF adapterP.state = "fulfilled" THEN <<"onAdapterResolve">> ELSE <<>>)
    \o <<"settled">>

settleStages(adapterP, n) ==
    (IF adapterP.state = "fulfilled" THEN <<"onAdapterResolve">> ELSE <<>>)
    \o handlerStages("response", n)
    \o <<"settled">>

\* a dispatch without the try: the exception leaves request()
dispatchUncaught(d) == [escaped |-> d.threw, rejected |-> FALSE]

\* try { promise = dispatchRequest(newConfig) } catch(err) { return
\* Promise.reject(err) }, dispatchRequest having returned or thrown as d
tryDispatch(d) == [escaped |-> FALSE, rejected |-> d.threw]

\* the state of one request() call once the interceptor loop has ended as rc
\* and dispatchRequest(newConfig) has returned as d
callState(i, arg, config, reqChain, respChain, rc, d) ==
    LET settled == IF d.adapterP.state = "pending" THEN [p |-> Pending, log |-> rc.log]
                   ELSE responseChain(dispatchSettled(d.config, d.adapterP), respChain, rc.log)
        try == IF rc.escaped THEN [escaped |-> FALSE, rejected |-> FALSE] ELSE tryDispatch(d)
    IN  [inst |-> i, arg |-> arg, merged |-> config,
         reqChain |-> reqChain, respChain |-> respChain,
         escaped |-> rc.escaped \/ try.escaped,
         error |-> IF try.escaped THEN d.error ELSE rc.error,
         dispatched |-> ~rc.escaped,
         newConfig |-> rc.config,
         config |-> IF rc.escaped THEN EmptyObj ELSE d.config,
         sent |-> IF rc.escaped THEN NoSent ELSE d.sent,
         events |-> <<>>,
         stages |-> handlerStages("request", Len(rc.log))
                    \o (CASE rc.escaped \/ try.escaped -> <<>>
                          [] try.rejected -> <<"settled">>
                          [] d.adapterP.state = "pending" -> dispatchStages(d)
                          [] OTHER -> dispatchStages(d)
                                      \o settleStages(d.adapterP, Len(settled.log) - Len(rc.log))),
         fired |-> <<>>,
         eventCalls |-> <<>>,
         settledBy |-> NoSettler,
         logRun |-> NoLogRun,
         adapterP |-> IF rc.escaped THEN Pending ELSE d.adapterP,
         dispatchP |-> CASE rc.escaped -> Pending
                         [] d.threw -> Rejected(d.error)
                         [] d.adapterP.state = "pending" -> Pending
                         [] OTHER -> dispatchSettled(d.config, d.adapterP),
         chained |-> ~rc.escaped /\ ~d.threw,
         result |-> CASE rc.escaped \/ try.escaped -> Pending
                      [] try.rejected -> Rejected(d.error)
                      [] OTHER -> settled.p,
         log |-> IF rc.escaped \/ d.threw THEN rc.log ELSE settled.log]

\* the synchronous part of Axios.prototype.request
request(i, arg) ==
    LET inst == instances[i]
        merged == mergeConfig(inst.defaults, arg)
        config == ObjValue(PutLeaf(merged, "method", normalMethod(merged, inst.defaults)))
        reqChain == requestInterceptors(inst.request)
        respChain == responseInterceptors(inst.response)
        rc == requestChain(config, reqChain, <<>>)
    IN  callState(i, arg, config, reqChain, respChain, rc, dispatchRequest(rc.config))

\* !!v, v an argument of an alias
truthyValue(v) == v.prim = "obj" \/ v.prim \notin Falsy

\* o[k] = v, v an object or a scalar
PutValue(o, k, v) == IF v.prim = "obj" THEN PutObj(o, k, v.obj) ELSE PutLeaf(o, k, v.prim)

\* o[k], an object or a scalar
GetValue(o, k) == IF IsPlainAt(o, k) THEN ObjValue(Sub(o, k)) ELSE Value(Get(o, k), EmptyObj, "")

Scalar(s) == Value(s, EmptyObj, "")

\* config || {}
orEmptyObj(config) == IF config.prim = "obj" THEN config.obj ELSE EmptyObj

\* the objects among the arguments of a call that assigns to none of them
argumentsKept(args) ==
    LET objs == SelectSeq(args, LAMBDA v : v.prim = "obj")
    IN  [k \in DOMAIN objs |-> [before |-> objs[k].obj, after |-> objs[k].obj]]

\* a request(url, config) that also writes the method it settles on
requestArgumentsNormalised(a0, a1) ==
    IF a0.prim # "obj"
    THEN LET config == PutLeaf(PutValue(orEmptyObj(a1), "url", a0), "method", DEFAULT_METHOD)
         IN  [config |-> config,
              passed |-> IF a1.prim = "obj"
                         THEN <<[before |-> a1.obj, after |-> config]>> ELSE <<>>]
    ELSE [config |-> a0.obj, passed |-> argumentsKept(<<a0>>)]

\* the first lines of request(): for a string a0, config = arguments[1] || {}
\* and config['url'] = arguments[0], on the caller's object; else config = a0
requestArguments(a0, a1) ==
    IF a0.prim # "obj"
    THEN LET config == PutValue(orEmptyObj(a1), "url", a0)
         IN  [config |-> config,
              passed |-> IF a1.prim = "obj"
                         THEN <<[before |-> a1.obj, after |-> config]>> ELSE <<>>]
    ELSE [config |-> a0.obj, passed |-> argumentsKept(<<a0>>)]

\* instance.request(arg)
Request(i, arg) ==
    /\ requested(i, request(i, requestArguments(ObjValue(arg), Undefined).config))
    /\ last' = [NoLast EXCEPT !.passed = requestArguments(ObjValue(arg), Undefined).passed]
    /\ UNCHANGED <<singleton, firstCfg, probe, store, today, writes, clockBacks, helper>>

\* instance.request(url, config), url a string
RequestUrl(i, url, config) ==
    LET a == requestArguments(Scalar(url), config)
    IN  /\ requested(i, request(i, a.config))
        /\ last' = [NoLast EXCEPT !.op = "request", !.inst = i, !.passed = a.passed,
                                  !.alias = [NoAlias EXCEPT !.url = Scalar(url),
                                                            !.config = config]]
        /\ UNCHANGED <<singleton, firstCfg, probe, store, today, writes, clockBacks, helper>>

\* the verb aliases that utils.each(methods, axiosRequestMethod) defines on
\* Axios.prototype
aliases == {toLowerCase(methods[k]) : k \in DOMAIN methods}

\* the verb aliases of the documentation
DocumentedAliases == {"get", "delete", "head", "options", "post", "put", "patch"}

\* the config an alias hands to request(): url, data and config are the
\* arguments of Axios.prototype[method]; noDataMethod, an array, is truthy
axiosRequestMethod(method, url, data, config) ==
    LET urlIsConfig == url.prim = "obj" /\ ~truthyValue(config)
        config1 == IF urlIsConfig THEN url ELSE config
        url1 == IF urlIsConfig
                THEN (IF Truthy(url.obj, "url") THEN GetValue(url.obj, "url")
                      ELSE Value("", EmptyObj, ""))
                ELSE url
        config2 == IF data.prim = "obj" /\ ~truthyValue(config1) THEN data ELSE config1
        given == IF truthyValue(config2) THEN config2.obj ELSE EmptyObj
        named == PutLeaf(PutValue(EmptyObj, "url", url1), "method", method)
    IN  mergeConfig(given, PutValue(named, "data", GetValue(given, "data")))

\* the arguments handed to the aliases
AliasURLs == { Value("/u", EmptyObj, ""), ObjValue(<<"url">> :> "/x") }

AliasData == { Undefined, ObjValue(<<"a">> :> "1") }

AliasConfigs ==
    { Undefined,
      ObjValue(<<"timeout">> :> "5"),
      ObjValue((<<"method">> :> "get") @@ (<<"data", "b">> :> "2")) }

\* instance[name](url, data, config): a name that Axios.prototype does not
\* define is not a function, and calling it throws a TypeError
Alias(i, name, url, data, config) ==
    LET defined == name \in aliases
    IN  /\ IF defined
           THEN requested(i, request(i, axiosRequestMethod(name, url, data, config)))
           ELSE UNCHANGED <<calls, instances>>
        /\ last' = [NoLast EXCEPT !.op = "alias", !.inst = i,
                       !.alias = [name |-> name, url |-> url, data |-> data,
                                  config |-> config, args |-> <<url, data, config>>,
                                  threw |-> ~defined],
                       !.passed = argumentsKept(<<url, data, config>>)]
        /\ UNCHANGED <<singleton, firstCfg, probe, store, today, writes, clockBacks, helper>>

\* a scalar as a value
\* a || b
orValue(a, b) == IF truthyValue(a) THEN a ELSE b

\* (config || {})[k]
fieldOf(config, k) == IF config.prim = "obj" THEN GetValue(config.obj, k) ELSE Undefined

\* the arguments of uploadFile after the exchange that takes the first plain
\* object among the first three as the config
uploadFileArgs(url, filePath, name, config) ==
    LET args == <<url, filePath, name, config>>
        plain == {k \in 1..4 : args[k].prim = "obj"}
        index == IF plain = {} THEN -1 ELSE (CHOOSE k \in plain : \A j \in plain : k <= j) - 1
        swapped ==
            CASE index = 0 ->
                    [url |-> orValue(fieldOf(url, "url"), Scalar("")),
                     filePath |-> orValue(fieldOf(url, "filePath"), Scalar("")),
                     name |-> orValue(fieldOf(url, "name"), Scalar("")),
                     config |-> url]
              [] index = 1 ->
                    [url |-> url,
                     filePath |-> orValue(fieldOf(filePath, "filePath"), Scalar("")),
                     name |-> orValue(fieldOf(filePath, "name"), Scalar("")),
                     config |-> filePath]
              [] index = 2 ->
                    [url |-> url, filePath |-> filePath,
                     name |-> orValue(fieldOf(name, "name"), Scalar("")),
                     config |-> name]
              [] OTHER -> [url |-> url, filePath |-> filePath, name |-> name, config |-> config]
    IN  [swapped EXCEPT !.filePath = orValue(@, fieldOf(swapped.config, "filePath")),
                        !.name = orValue(@, fieldOf(swapped.config, "name"))]

\* the config uploadFile hands to request(), from the exchanged arguments
uploadFileConfig(a) ==
    mergeConfig(orEmptyObj(a.config),
                PutValue(PutValue(PutValue(PutLeaf(EmptyObj, "method", "POST"),
                                           "url", orValue(a.url, fieldOf(a.config, "url"))),
                                  "filePath", a.filePath),
                         "name", a.name))

\* uploadFile without the test of filePath and name
uploadFileNoCheck(url, filePath, name, config) ==
    [threw |-> FALSE, config |-> uploadFileConfig(uploadFileArgs(url, filePath, name, config))]

\* Axios.prototype.uploadFile up to its call of request(): threw when it
\* throws its Error, else the config it hands over
uploadFile(url, filePath, name, config) ==
    [threw |-> \/ ~truthyValue(uploadFileArgs(url, filePath, name, config).filePath)
               \/ ~truthyValue(uploadFileArgs(url, filePath, name, config).name),
     config |-> uploadFileConfig(uploadFileArgs(url, filePath, name, config))]

\* Axios.prototype.downloadFile up to its call of request()
downloadFile(url, config) ==
    LET urlIsConfig == url.prim = "obj" /\ ~truthyValue(config)
        config1 == IF urlIsConfig THEN url ELSE config
        url1 == IF urlIsConfig THEN orValue(fieldOf(url, "url"), Scalar("")) ELSE url
    IN  mergeConfig(orEmptyObj(config1),
                    PutValue(PutValue(PutLeaf(EmptyObj, "method", "GET"), "url", url1),
                             "filePath", orValue(fieldOf(config1, "filePath"), Scalar(""))))

\* Axios.prototype.connectSocket up to its call of request()
connectSocket(url, config) ==
    LET urlIsConfig == url.prim = "obj" /\ ~truthyValue(config)
        config1 == IF urlIsConfig THEN url ELSE config
        url1 == IF urlIsConfig THEN orValue(fieldOf(url, "url"), Scalar("")) ELSE url
    IN  mergeConfig(orEmptyObj(config1),
                    PutValue(PutValue(EmptyObj, "url", url1),
                             "protocols", orValue(fieldOf(config1, "protocols"), Scalar(""))))

\* the arguments handed to the transport aliases: a url, or a config in its
\* place; a path, a name, or nothing
TransportURLs ==
    { Scalar("/u"),
      ObjValue((<<"url">> :> "/x") @@ (<<"filePath">> :> "f") @@ (<<"name">> :> "n")),
      ObjValue((<<"url">> :> "/x") @@ (<<"name">> :> "n")),
      ObjValue((<<"url">> :> "/x") @@ (<<"filePath">> :> "")) }

TransportStrings == { Undefined, Scalar(""), Scalar("s") }

TransportConfigs ==
    { Undefined,
      ObjValue(<<"timeout">> :> "5"),
      ObjValue((<<"filePath">> :> "f") @@ (<<"name">> :> "n")),
      ObjValue(<<"name">> :> "n"),
      ObjValue(<<"filePath">> :> "f"),
      ObjValue(<<"protocols">> :> "[]") }

\* instance.uploadFile(url, filePath, name, config)
UploadFile(i, url, filePath, name, config) ==
    LET up == uploadFile(url, filePath, name, config)
    IN  /\ IF up.threw THEN UNCHANGED <<calls, instances>>
           ELSE requested(i, request(i, up.config))
        /\ last' = [NoLast EXCEPT !.op = "alias", !.inst = i,
                       !.alias = [NoAlias EXCEPT !.name = "uploadFile", !.url = url,
                                     !.config = config,
                                     !.args = <<url, filePath, name, config>>,
                                     !.threw = up.threw],
                       !.passed = argumentsKept(<<url, filePath, name, config>>)]
        /\ UNCHANGED <<singleton, firstCfg, probe, store, today, writes, clockBacks, helper>>

\* instance.downloadFile(url, config)
DownloadFile(i, url, config) ==
    /\ requested(i, request(i, downloadFile(url, config)))
    /\ last' = [NoLast EXCEPT !.op = "alias", !.inst = i,
                   !.alias = [NoAlias EXCEPT !.name = "downloadFile", !.url = url,
                                 !.config = config, !.args = <<url, config>>],
                   !.passed = argumentsKept(<<url, config>>)]
    /\ UNCHANGED <<singleton, firstCfg, probe, store, today, writes, clockBacks, helper>>

\* instance.connectSocket(url, config)
ConnectSocket(i, url, config) ==
    /\ requested(i, request(i, connectSocket(url, config)))
    /\ last' = [NoLast EXCEPT !.op = "alias", !.inst = i,
                   !.alias = [NoAlias EXCEPT !.name = "connectSocket", !.url = url,
                                 !.config = config, !.args = <<url, config>>],
                   !.passed = argumentsKept(<<url, config>>)]
    /\ UNCHANGED <<singleton, firstCfg, probe, store, today, writes, clockBacks, helper>>

\* the values request() takes for no config
NoConfigs == { Undefined, Scalar("null"), Scalar(""), Scalar("0"), Scalar("false") }

\* instance.request(config) with a falsy config: throws its Error at once
RequestNoConfig(i, config) ==
    /\ last' = [NoLast EXCEPT !.op = "request", !.inst = i,
                   !.alias = [NoAlias EXCEPT !.config = config, !.threw = TRUE]]
    /\ UNCHANGED <<instances, singleton, firstCfg, calls, probe, store, today, writes,
                   clockBacks, helper>>

\* the host invokes one of the callbacks handed to the primitive; cb names it
adapterSettled(call, cb, payload) ==
    CASE cb = "success" -> settle(call.adapterP, "fulfilled", OrEmpty(payload))
      [] cb = "fail" -> settle(call.adapterP, "rejected", OrEmpty(payload))
      [] OTHER -> call.adapterP

\* a callback after which the response handlers are read from the manager
hostCallbackLive(call, cb, payload, run) ==
    LET adapterP == adapterSettled(call, cb, payload)
        fresh == call.adapterP.state = "pending" /\ adapterP.state # "pending"
        dispatchP == IF fresh THEN logStep(dispatchSettled(call.config, adapterP), run.threw)
                     ELSE call.dispatchP
        settled == IF fresh
                   THEN responseChain(dispatchP,
                            responseInterceptors(instances[call.inst].response), call.log)
                   ELSE [p |-> call.result, log |-> call.log]
    IN  [call EXCEPT !.events = Append(@, cb),
                     !.stages = Append(@, cb)
                                \o (IF fresh
                                    THEN settleStages(adapterP, Len(settled.log) - Len(call.log))
                                    ELSE <<>>),
                     !.settledBy = IF fresh THEN [cb |-> cb, payload |-> payload] ELSE @,
                     !.logRun = IF fresh THEN [threw |-> run.threw, wrote |-> run.wrote]
                                ELSE @,
                     !.adapterP = adapterP,
                     !.dispatchP = dispatchP,
                     !.result = settled.p,
                     !.log = settled.log]

\* the call after the callback; run: what the logging step came to
hostCallback(call, cb, payload, run) ==
    LET adapterP == adapterSettled(call, cb, payload)
        fresh == call.adapterP.state = "pending" /\ adapterP.state # "pending"
        dispatchP == IF fresh THEN logStep(dispatchSettled(call.config, adapterP), run.threw)
                     ELSE call.dispatchP
        settled == IF fresh THEN responseChain(dispatchP, call.respChain, call.log)
                   ELSE [p |-> call.result, log |-> call.log]
    IN  [call EXCEPT !.events = Append(@, cb),
                     !.stages = Append(@, cb)
                                \o (IF fresh
                                    THEN settleStages(adapterP, Len(settled.log) - Len(call.log))
                                    ELSE <<>>),
                     !.settledBy = IF fresh THEN [cb |-> cb, payload |-> payload] ELSE @,
                     !.logRun = IF fresh THEN [threw |-> run.threw, wrote |-> run.wrote]
                                ELSE @,
                     !.adapterP = adapterP,
                     !.dispatchP = dispatchP,
                     !.result = settled.p,
                     !.log = settled.log]

\* what the logging step of onAdapterResolve can come to for this callback
logStepRuns(call, cb, payload) ==
    LET adapterP == adapterSettled(call, cb, payload)
        p == dispatchSettled(call.config, adapterP)
    IN  IF ~(/\ call.adapterP.state = "pending"
             /\ adapterP.state = "fulfilled"
             /\ p.state = "fulfilled"
             /\ Truthy(call.config, "openLocalLogger"))
        THEN {[store |-> store, threw |-> FALSE, wrote |-> FALSE]}
        ELSE IF Get(call.config, "logManager") # "obj:LogManager"
        THEN {[store |-> store, threw |-> TRUE, wrote |-> FALSE]}
        ELSE logRuns(store, today, logValue(call.config, p.value, writes + 1))

HostCallback(c, cb, payload) ==
    /\ calls[c].sent.primitive # "none"
    /\ Len(calls[c].events) < MaxCallbacks
    /\ \E run \in logStepRuns(calls[c], cb, payload) :
          /\ calls' = [calls EXCEPT ![c] = hostCallback(calls[c], cb, payload, run)]
          /\ store' = run.store
          /\ writes' = IF run.wrote THEN writes + 1 ELSE writes
    /\ last' = NoLast
    /\ UNCHANGED <<instances, singleton, firstCfg, probe, today, clockBacks, helper>>

\* what the host hands to the listeners of its task events
EventPayloads == {"res1", "res2"}

\* the events the task handle of a primitive fires: those it has an on-method for
taskEvents(primitive) ==
    taskMethods(primitive) \cap {"onProgressUpdate", "onHeadersReceived", "onChunkReceived",
                                 "onOpen", "onMessage", "onError", "onClose"}

\* requestTaskCallback(res), once for every listener the bridge has handed to
\* the method key of the handle: configTask[key].apply(this, [res, requestTask])
requestTaskCallbacks(listeners, key, res) ==
    [j \in 1..Len(SelectSeq(listeners, LAMBDA k : k = key)) |->
        [key |-> key, args |-> <<res, RequestTask>>]]

\* the host fires the event key of the task handle of call c with payload res
HostEvent(c, key, res) ==
    /\ calls[c].sent.primitive # "none"
    /\ key \in taskEvents(calls[c].sent.primitive)
    /\ Len(calls[c].fired) < MaxEvents
    /\ calls' = [calls EXCEPT
                    ![c].fired = Append(@, [key |-> key, res |-> res]),
                    ![c].eventCalls =
                        @ \o requestTaskCallbacks(calls[c].sent.bridge.listeners, key, res)]
    /\ last' = NoLast
    /\ UNCHANGED <<instances, singleton, firstCfg, probe, store, today, writes, clockBacks,
                  helper>>

HostSuccess(c) == \E payload \in SuccessPayloads : HostCallback(c, "success", payload)

HostFail(c) == \E payload \in FailPayloads : HostCallback(c, "fail", payload)

HostComplete(c) == HostCallback(c, "complete", Undefined)

\* success payloads over status codes and body kinds: a well-formed and a
\* malformed JSON text, a body that is no string, and no payload at all
StatusPayloads ==
    { ObjValue((<<"statusCode">> :> st) @@ (<<"data">> :> body)) :
          st \in {"200", "404"}, body \in {"str:{a:1}", "str:oops", "obj:ArrayBuffer"} }
    \cup {Undefined}

HostSuccessStatus(c) == \E payload \in StatusPayloads : HostCallback(c, "success", payload)

\* per-call configs over the options the dispatcher reads: forced parsing,
\* the method in its spellings, and a header with all three layers
DispatchInputs ==
    LET layers == (<<"header", "common", "k1">> :> "common")
                  @@ (<<"header", "common", "k2">> :> "common")
                  @@ (<<"header", "common", "k3">> :> "common")
                  @@ (<<"header", "POST", "k2">> :> "post")
                  @@ (<<"header", "POST", "k3">> :> "post")
                  @@ (<<"header", "GET", "k2">> :> "get")
                  @@ (<<"header", "k3">> :> "top")
    IN  { EmptyObj,
          (<<"forcedJSONParsing">> :> "false"),
          (<<"method">> :> "post"),
          (<<"method">> :> "patch"),
          (<<"method">> :> ""),
          layers,
          layers @@ (<<"method">> :> "post"),
          layers @@ (<<"method">> :> "Put") }

\* configs that select each of the four adapters
AdapterSelectors ==
    { EmptyObj,
      (<<"name">> :> "n") @@ (<<"filePath">> :> "f"),
      (<<"filePath">> :> ""),
      (<<"protocols">> :> "[]") }

\* task specs: the keys of the request-like handles, those of the socket
\* handle, keys of both kinds of handle in turn, and an unknown key next to
\* known keys whose values are no functions
TaskSpecs ==
    { (<<"task", "abort">> :> "fn:handler")
        @@ (<<"task", "onHeadersReceived">> :> "fn:handler")
        @@ (<<"task", "offHeadersReceived">> :> "fn:handler"),
      (<<"task", "onOpen">> :> "fn:handler")
        @@ (<<"task", "onMessage">> :> "fn:handler")
        @@ (<<"task", "close">> :> "fn:handler")
        @@ (<<"task", "send">> :> "fn:handler"),
      (<<"task", "onHeadersReceived">> :> "fn:handler")
        @@ (<<"task", "onOpen">> :> "fn:handler")
        @@ (<<"task", "onChunkReceived">> :> "fn:handler")
        @@ (<<"task", "send">> :> "fn:handler"),
      (<<"task", "foo">> :> "fn:handler")
        @@ (<<"task", "abort">> :> "5")
        @@ (<<"task", "onHeadersReceived">> :> "obj:Date")
        @@ (<<"task", "bar">> :> "5"),
      (<<"task">> :> "true"),
      EmptyObj }

\* per-call configs with a task spec, for every adapter
TaskInputs == { sel @@ task : sel \in AdapterSelectors, task \in TaskSpecs }

\* the overrides handed to create() to give an instance a default method
MethodOverrides == { (<<"method">> :> "Put"), (<<"method">> :> "patch") }

----------------------------------------------------------------------------
(* helpers.buildPathParam, on strings as sequences of characters *)

RECURSIVE replaceFootSlash(_)
\* url.replace(reFootSlash, '')
replaceFootSlash(str) ==
    IF str # <<>> /\ str[Len(str)] = "/" THEN replaceFootSlash(SubSeq(str, 1, Len(str) - 1))
    ELSE str

RECURSIVE replaceHeadSlash(_)
\* url.replace(reHeadSlash, '')
replaceHeadSlash(str) ==
    IF str # <<>> /\ str[1] = "/" THEN replaceHeadSlash(Tail(str)) ELSE str

\* helpers.combineURLs
combineURLs(url1, url2) ==
    IF url1 = <<>> \/ url2 = <<>> THEN <<>>
    ELSE replaceFootSlash(url1) \o <<"/">> \o replaceHeadSlash(url2)

\* !!~url.indexOf('=')
hasEquals(url) == \E j \in DOMAIN url : url[j] = "="

RECURSIVE forEachKey(_, _, _, _)
\* keys.forEach(...) of buildPathParam from position index on; params is the
\* sequence of the entries in Object.keys order, index counts from 0
forEachKey(params, isExist, index, suffix) ==
    IF index >= Len(params) THEN suffix
    ELSE forEachKey(params, isExist, index + 1,
                    IF params[index + 1].fn THEN suffix
                    ELSE suffix \o (IF ~isExist /\ index = 0 THEN <<>> ELSE <<"&">>)
                                \o params[index + 1].key \o <<"=">> \o params[index + 1].value)

\* helpers.buildPathParam(url, params), params a plain object
buildPathParam(url, params) ==
    IF url = <<>> THEN <<>>
    ELSE combineURLs(url, <<"?">> \o forEachKey(params, hasEquals(url), 0, <<>>))

\* the characters of the urls handed in
UrlChars == {"/", "a", "b", "="}

\* the entries of the params handed in: two values and a callback
ParamEntries ==
    { [key |-> <<"x">>, value |-> <<"1">>, fn |-> FALSE],
      [key |-> <<"y">>, value |-> <<"2">>, fn |-> FALSE],
      [key |-> <<"c", "b">>, value |-> <<>>, fn |-> TRUE] }

\* buildPathParam is evaluated on the arguments drawn
EvalBuildPathParam ==
    /\ helper.fn = "arguments"
    /\ helper' = [fn |-> "buildPathParam", url |-> helper.url, params |-> helper.params,
                  out |-> buildPathParam(helper.url, helper.params)]
    /\ UNCHANGED <<instances, singleton, firstCfg, last, calls, probe, store, today, writes,
                   clockBacks>>

----------------------------------------------------------------------------
(* use() and eject() on the managers of an instance *)

\* the handler pairs handed to use(): what the fulfilled handler does with its
\* argument (hands it on, throws, returns nothing, or is not given) and what
\* the rejected handler does (returns, throws, or is not given)
HandlerPairs ==
    { <<"pass", "absent">>, <<"pass", "ret">>, <<"throw", "ret">>, <<"throw", "throw">>,
      <<"throw", "absent">>, <<"void", "ret">>, <<"absent", "throw">> }

\* the pairs registered where both managers are in play
PipelinePairs == { <<"pass", "ret">>, <<"throw", "ret">> }

Sides == {"request", "response"}

\* a use() on handlers that all managers share
UseShared(i, side, pair) ==
    LET handlers == IF side = "request" THEN instances[i].request ELSE instances[i].response
        pushed(h) == use(h, Len(h) + 1, pair[1], pair[2])
    IN  /\ Len(handlers) < MaxHandlers
        /\ instances' = [j \in DOMAIN instances |->
              IF side = "request"
              THEN [instances[j] EXCEPT !.request = pushed(@)]
              ELSE [instances[j] EXCEPT !.response = pushed(@)]]
        /\ last' = [NoLast EXCEPT !.op = "use", !.inst = i, !.side = side,
                                  !.ret = useId(pushed(handlers))]
        /\ UNCHANGED <<singleton, firstCfg, calls, probe, store, today, writes, clockBacks, helper>>

\* instance.interceptors[side].use(fulfilled, rejected)
Use(i, side, pair) ==
    LET inst == instances[i]
        handlers == IF side = "request" THEN inst.request ELSE inst.response
        pushed == use(handlers, Len(handlers) + 1, pair[1], pair[2])
        id == useId(pushed)
    IN  /\ Len(handlers) < MaxHandlers
        /\ instances' = [instances EXCEPT ![i] =
              IF side = "request"
              THEN [inst EXCEPT !.request = pushed, !.reqIds = Append(@, id)]
              ELSE [inst EXCEPT !.response = pushed, !.respIds = Append(@, id)]]
        /\ last' = [NoLast EXCEPT !.op = "use", !.inst = i, !.side = side, !.ret = id]
        /\ UNCHANGED <<singleton, firstCfg, calls, probe, store, today, writes, clockBacks, helper>>

\* instance.interceptors[side].eject(id)
Eject(i, side, id) ==
    LET inst == instances[i]
        handlers == IF side = "request" THEN inst.request ELSE inst.response
        noted == IF id + 1 \in DOMAIN handlers
                 THEN [inst EXCEPT !.ejected[side] = @ \cup {id}]
                 ELSE inst
    IN  /\ instances' = [instances EXCEPT ![i] =
              IF side = "request"
              THEN [noted EXCEPT !.request = eject(@, id)]
              ELSE [noted EXCEPT !.response = eject(@, id)]]
        /\ last' = [NoLast EXCEPT !.op = "eject", !.inst = i, !.side = side, !.id = id]
        /\ UNCHANGED <<singleton, firstCfg, calls, probe, store, today, writes, clockBacks, helper>>

----------------------------------------------------------------------------
(* The classifier on its own *)

NoProbe == [config |-> EmptyObj, adapter |-> "", adapterName |-> ""]

\* the values the classified fields take; "absent" leaves the key out
NameValues == {"absent", "", "n", "false", "0"}

FilePathValues == {"absent", "", "f", "undefined", "null"}

ProtocolsValues == {"absent", "", "[]", "undefined"}

ProbeConfig(n, f, q) ==
    LET put(o, k, x) == IF x = "absent" THEN o ELSE PutLeaf(o, k, x)
    IN  put(put(put(EmptyObj, "name", n), "filePath", f), "protocols", q)

Classify(n, f, q) ==
    LET config == ProbeConfig(n, f, q)
        r == getDefaultAdapter(config)
    IN  /\ probe' = [config |-> config, adapter |-> r.adapter, adapterName |-> r.adapterName]
        /\ UNCHANGED <<instances, singleton, firstCfg, last, calls, store, today, writes, clockBacks,
                  helper>>

----------------------------------------------------------------------------
(* Specifications *)

\* the configs handed to createInstance
FactoryConfigs ==
    { (<<"useSingleton">> :> "true") @@ (<<"baseURL">> :> "a")
          @@ (<<"header", "common", "content-type">> :> "application/json"),
      (<<"useSingleton">> :> "true") @@ (<<"baseURL">> :> "b"),
      (<<"useSingleton">> :> "false") @@ (<<"baseURL">> :> "c")
          @@ (<<"header", "common", "content-type">> :> "text/plain")
          @@ (<<"header", "GET", "accept">> :> "*") }

\* the overrides handed to create()
Overrides ==
    { EmptyObj,
      (<<"useSingleton">> :> "false") @@ (<<"baseURL">> :> "x"),
      (<<"useSingleton">> :> "true") @@ (<<"header", "common", "token">> :> "k"),
      (<<"header">> :> "none") @@ (<<"timeout">> :> "5") }

\* the closure state of ProxyAxios before the first call of the factory
InitFactory ==
    /\ instances = <<>>
    /\ singleton = 0
    /\ firstCfg = <<>>
    /\ last = NoLast
    /\ calls = <<>>
    /\ probe = NoProbe
    /\ store = <<>>
    /\ today = 1
    /\ writes = 0
    /\ clockBacks = 0
    /\ helper = NoHelper

NextFactory ==
    \/ \E cfg \in FactoryConfigs : CreateInstance(cfg)
    \/ \E i \in DOMAIN instances, o \in Overrides : Create(i, o)

SpecFactory == InitFactory /\ [][NextFactory]_vars

\* the module once loaded: let axios = createInstance(defaults)
Init ==
    \E env \in EnvVersions :
        /\ instances = <<Axios(defaults(env))>>
        /\ singleton = 1
        /\ firstCfg = <<defaults(env)>>
        /\ last = NoLast
        /\ calls = <<>>
        /\ probe = NoProbe
        /\ store = <<>>
        /\ today = 1
        /\ writes = 0
        /\ clockBacks = 0
        /\ helper = NoHelper

\* use() and eject() alone, on both managers of the instance
NextManager ==
    \/ \E side \in Sides, pair \in PipelinePairs : Use(1, side, pair)
    \/ \E side \in Sides, id \in -1..MaxHandlers : Eject(1, side, id)

SpecManager == Init /\ [][NextManager]_vars

\* one request() call and the host's callbacks for it
FollowCall ==
    \/ \E arg \in RequestInputs : calls = <<>> /\ Request(1, arg)
    \/ \E c \in DOMAIN calls : HostSuccess(c)
    \/ \E c \in DOMAIN calls : HostFail(c)
    \/ \E c \in DOMAIN calls : HostComplete(c)

\* registrations on the request manager, then one call
NextRequest ==
    \/ \E pair \in HandlerPairs : calls = <<>> /\ Use(1, "request", pair)
    \/ \E id \in -1..MaxHandlers : calls = <<>> /\ Eject(1, "request", id)
    \/ FollowCall

SpecRequest == Init /\ [][NextRequest]_vars

\* registrations on the response manager, then one call
NextResponse ==
    \/ \E pair \in HandlerPairs : calls = <<>> /\ Use(1, "response", pair)
    \/ \E id \in -1..MaxHandlers : calls = <<>> /\ Eject(1, "response", id)
    \/ FollowCall

SpecResponse == Init /\ [][NextResponse]_vars

\* registrations on both managers, then one call
Next ==
    \/ \E side \in Sides, pair \in PipelinePairs : calls = <<>> /\ Use(1, side, pair)
    \/ \E side \in Sides, id \in -1..MaxHandlers : calls = <<>> /\ Eject(1, side, id)
    \/ FollowCall

Spec == Init /\ [][Next]_vars

\* instances with a default method, then one call that the host answers
NextDispatch ==
    \/ \E o \in MethodOverrides : calls = <<>> /\ Create(1, o)
    \/ \E i \in DOMAIN instances, arg \in DispatchInputs : calls = <<>> /\ Request(i, arg)
    \/ \E c \in DOMAIN calls : HostSuccessStatus(c)
    \/ \E c \in DOMAIN calls : HostFail(c)
    \/ \E c \in DOMAIN calls : HostComplete(c)

SpecDispatch == Init /\ [][NextDispatch]_vars

\* one call through a verb alias, which the host answers
NextAlias ==
    \/ \E name \in DocumentedAliases, url \in AliasURLs, data \in AliasData,
          config \in AliasConfigs :
           calls = <<>> /\ last.op # "alias" /\ Alias(1, name, url, data, config)
    \/ \E c \in DOMAIN calls : HostSuccess(c)
    \/ \E c \in DOMAIN calls : HostFail(c)
    \/ \E c \in DOMAIN calls : HostComplete(c)

SpecAlias == Init /\ [][NextAlias]_vars

\* one call with a task spec; the host fires task events and answers
NextTask ==
    \/ \E arg \in TaskInputs : calls = <<>> /\ Request(1, arg)
    \/ \E c \in DOMAIN calls, key \in legalCallbackTasks, res \in EventPayloads :
           HostEvent(c, key, res)
    \/ \E c \in DOMAIN calls : HostSuccess(c)
    \/ \E c \in DOMAIN calls : HostFail(c)

SpecTask == Init /\ [][NextTask]_vars

\* one call of request() without a config or through a transport alias,
\* which the host answers
NextTransport ==
    \/ \E config \in NoConfigs : calls = <<>> /\ last.op = "none" /\ RequestNoConfig(1, config)
    \/ \E url \in TransportURLs, filePath \in TransportStrings, name \in TransportStrings,
          config \in TransportConfigs :
           calls = <<>> /\ last.op = "none" /\ UploadFile(1, url, filePath, name, config)
    \/ \E url \in TransportURLs, config \in TransportConfigs :
           calls = <<>> /\ last.op = "none" /\ DownloadFile(1, url, config)
    \/ \E url \in TransportURLs, config \in TransportConfigs :
           calls = <<>> /\ last.op = "none" /\ ConnectSocket(1, url, config)
    \/ \E c \in DOMAIN calls : HostSuccess(c)
    \/ \E c \in DOMAIN calls : HostFail(c)
    \/ \E c \in DOMAIN calls : HostComplete(c)

SpecTransport == Init /\ [][NextTransport]_vars

\* overrides handed to create(): a method, and headers of their own
DefaultsOverrides ==
    MethodOverrides
    \cup { (<<"header", "common", "token">> :> "t") @@ (<<"header", "POST", "k">> :> "v") }

\* the library instance and one instance of its own defaults, then one call
\* through request() or any alias, which the host answers
NextDefaults ==
    \/ \E o \in DefaultsOverrides : calls = <<>> /\ last.op = "none" /\ Create(1, o)
    \/ \E i \in DOMAIN instances, arg \in RequestInputs : calls = <<>> /\ Request(i, arg)
    \/ \E i \in DOMAIN instances, name \in DocumentedAliases, url \in AliasURLs,
          data \in AliasData, config \in AliasConfigs :
           calls = <<>> /\ last.op # "alias" /\ Alias(i, name, url, data, config)
    \/ \E i \in DOMAIN instances, url \in TransportURLs, filePath \in TransportStrings,
          name \in TransportStrings, config \in TransportConfigs :
           calls = <<>> /\ last.op # "alias" /\ UploadFile(i, url, filePath, name, config)
    \/ \E i \in DOMAIN instances, url \in TransportURLs, config \in TransportConfigs :
           calls = <<>> /\ last.op # "alias" /\ DownloadFile(i, url, config)
    \/ \E i \in DOMAIN instances, url \in TransportURLs, config \in TransportConfigs :
           calls = <<>> /\ last.op # "alias" /\ ConnectSocket(i, url, config)
    \/ \E c \in DOMAIN calls : HostSuccess(c)
    \/ \E c \in DOMAIN calls : HostFail(c)
    \/ \E c \in DOMAIN calls : HostComplete(c)

SpecDefaults == Init /\ [][NextDefaults]_vars

\* per-call configs for the whole pipeline: no task spec, a task spec of the
\* request handle, the same spec on a socket, whose handle has none of its
\* keys, and an upload
PipelineInputs ==
    LET task == (<<"task", "abort">> :> "fn:handler")
                @@ (<<"task", "onHeadersReceived">> :> "fn:handler")
    IN  { EmptyObj, task, (<<"protocols">> :> "[]") @@ task,
          (<<"name">> :> "n") @@ (<<"filePath">> :> "f") }

\* registrations on both managers, then one call, with or without a task
\* spec, which the host answers
NextPipeline ==
    \/ \E side \in Sides, pair \in PipelinePairs : calls = <<>> /\ Use(1, side, pair)
    \/ \E arg \in PipelineInputs : calls = <<>> /\ Request(1, arg)
    \/ \E c \in DOMAIN calls : HostSuccess(c)
    \/ \E c \in DOMAIN calls : HostFail(c)
    \/ \E c \in DOMAIN calls : HostComplete(c)

SpecPipeline == Init /\ [][NextPipeline]_vars

\* the library instance creates two instances; up to two registrations on
\* each of the three and a request through any of them, in any order; the
\* host answers by success
NextInstances ==
    \/ Len(instances) < 3 /\ Create(1, <<"baseURL">> :> "x")
    \/ \E i \in DOMAIN instances, side \in Sides :
           /\ Len(instances[i].request) + Len(instances[i].response) < 2
           /\ Use(i, side, <<"pass", "ret">>)
    \/ \E i \in DOMAIN instances : calls = <<>> /\ Request(i, EmptyObj)
    \/ \E c \in DOMAIN calls : calls[c].events = <<>> /\ HostCallback(c, "success", Undefined)

SpecInstances == Init /\ [][NextInstances]_vars

\* one call of an entry point that takes a config: create(), request() in
\* both forms, a verb alias or a transport alias
NextCaller ==
    \/ \E o \in Overrides : calls = <<>> /\ last.op = "none" /\ Create(1, o)
    \/ \E arg \in RequestInputs : calls = <<>> /\ last.op = "none" /\ Request(1, arg)
    \/ \E url \in {"/u", "/v"}, config \in AliasConfigs :
           calls = <<>> /\ last.op = "none" /\ RequestUrl(1, url, config)
    \/ \E name \in DocumentedAliases, url \in AliasURLs, data \in AliasData,
          config \in AliasConfigs :
           calls = <<>> /\ last.op = "none" /\ Alias(1, name, url, data, config)
    \/ \E url \in TransportURLs, filePath \in TransportStrings, name \in TransportStrings,
          config \in TransportConfigs :
           calls = <<>> /\ last.op = "none" /\ UploadFile(1, url, filePath, name, config)
    \/ \E url \in TransportURLs, config \in TransportConfigs :
           calls = <<>> /\ last.op = "none" /\ DownloadFile(1, url, config)
    \/ \E url \in TransportURLs, config \in TransportConfigs :
           calls = <<>> /\ last.op = "none" /\ ConnectSocket(1, url, config)

SpecCaller == Init /\ [][NextCaller]_vars

\* whether no call has settled yet
AllInFlight == \A c \in DOMAIN calls : calls[c].result.state = "pending"

\* registrations and ejections on the response manager, before any request
\* and while requests are in flight; two requests; the host answers each by
\* success or by fail
NextInFlight ==
    \/ \E pair \in PipelinePairs :
           /\ AllInFlight /\ Len(instances[1].response) < 2
           /\ Use(1, "response", pair)
    \/ \E id \in 0..1 :
           /\ AllInFlight /\ id + 1 \in DOMAIN instances[1].response
           /\ instances[1].response[id + 1] # Tomb
           /\ Eject(1, "response", id)
    \/ Len(calls) < 2 /\ Request(1, EmptyObj)
    \/ \E c \in DOMAIN calls, cb \in {"success", "fail"} :
           calls[c].events = <<>> /\ HostCallback(c, cb, Undefined)

SpecInFlight == Init /\ [][NextInFlight]_vars

\* urls of up to MaxUrlLen characters and params of up to MaxParams entries
\* with different keys
InitPath ==
    /\ instances = <<>>
    /\ singleton = 0
    /\ firstCfg = <<>>
    /\ last = NoLast
    /\ calls = <<>>
    /\ probe = NoProbe
    /\ store = <<>>
    /\ today = 1
    /\ writes = 0
    /\ clockBacks = 0
    /\ \E n \in 0..MaxUrlLen, m \in 0..MaxParams :
          \E url \in [1..n -> UrlChars], params \in [1..m -> ParamEntries] :
              /\ \A j, k \in 1..m : params[j].key = params[k].key => j = k
              /\ helper = [fn |-> "arguments", url |-> url, params |-> params]

NextPath == EvalBuildPathParam

SpecPath == InitPath /\ [][NextPath]_vars

\* merge on up to MaxSources sources, and a change to its result
NextMerge ==
    \/ \E n \in 0..MaxSources : \E sources \in [1..n -> MergeSources] : EvalMerge(sources)
    \/ \E id \in 1..(Len(SourceHeap) + 8) : ChangeResult(id)

SpecMerge == InitFactory /\ [][NextMerge]_vars

\* set() calls over the days, on a clock that moves on and is set back
NextLogDays ==
    \/ LogSet(MaxWrites)
    \/ Tick
    \/ ClockBack

SpecLogDays == InitFactory /\ [][NextLogDays]_vars

\* set() calls on one day
NextLogCounts == LogSet(MaxEntries)

SpecLogCounts == InitFactory /\ [][NextLogCounts]_vars

NextClassify ==
    \E n \in NameValues, f \in FilePathValues, q \in ProtocolsValues : Classify(n, f, q)

SpecClassify == InitFactory /\ [][NextClassify]_vars

----------------------------------------------------------------------------
(* Properties: interceptor manager *)

Managers == {<<i, side>> : i \in DOMAIN instances, side \in Sides}

HandlersOf(insts, m) ==
    IF m[2] = "request" THEN insts[m[1]].request ELSE insts[m[1]].response

IdsOf(insts, m) ==
    IF m[2] = "request" THEN insts[m[1]].reqIds ELSE insts[m[1]].respIds

StrictlyIncreasing(q) == \A j, k \in DOMAIN q : j < k => q[j] < q[k]

\* every id use() has returned on a manager is larger than all it returned before
IdsNeverReused == \A m \in Managers : StrictlyIncreasing(IdsOf(instances, m))

\* in one step no manager shrinks and every id keeps its entry, or the
\* tombstone of that entry
EntriesStable ==
    \A m \in Managers :
        LET h == HandlersOf(instances, m)
            hh == HandlersOf(instances', m)
        IN  /\ Len(hh) >= Len(h)
            /\ \A id \in 0..(Len(h) - 1) : hh[id + 1] = h[id + 1] \/ hh[id + 1] = Tomb

\* an eject() of an id out of range, or already ejected, changes no manager
VainEjectChangesNothing ==
    (/\ last'.op = "eject"
     /\ LET h == HandlersOf(instances, <<last'.inst, last'.side>>)
        IN  last'.id + 1 \notin DOMAIN h \/ h[last'.id + 1] = Tomb)
    => instances' = instances

\* C6: across any interleaving of use() and eject() on a manager, the ids
\* use() returns are strictly increasing and never reused, the handlers
\* sequence never shrinks, an id designates the same entry or its tombstone for
\* ever, and eject() of an out-of-range or already ejected id changes nothing.
C6_StableIds ==
    /\ []IdsNeverReused
    /\ [][EntriesStable /\ VainEjectChangesNothing]_vars

\* a use() that followed the eject of the entry before it, and got a new id
C6_Witness ==
    /\ last.op = "use" /\ last.ret = 1
    /\ HandlersOf(instances, <<last.inst, last.side>>)[1] = Tomb
    /\ HandlersOf(instances, <<last.inst, last.side>>)[2] # Tomb

----------------------------------------------------------------------------
(* Properties: the factory *)

\* the singleton, once built, is never replaced and its defaults never change
SingletonKept ==
    singleton # 0 => /\ singleton' = singleton
                     /\ instances'[singleton].defaults = instances[singleton].defaults

\* a singleton-mode call returns the singleton, whose defaults are the config
\* of the first singleton-mode call
SingletonFirstWins ==
    /\ singleton # 0 => /\ firstCfg # <<>>
                        /\ instances[singleton].defaults = firstCfg[1]
    /\ (last.op = "createInstance" /\ Get(last.cfg, "useSingleton") = "true")
          => last.ret = singleton

\* C7: every createInstance call made with useSingleton true returns the same
\* single instance, whose defaults are the config of the first such call; the
\* configs of later singleton-mode calls never alter it.
C7_Singleton == []SingletonFirstWins /\ [][SingletonKept]_vars

\* a second singleton-mode call, made with another config than the first
C7_Witness ==
    /\ last.op = "createInstance"
    /\ Get(last.cfg, "useSingleton") = "true"
    /\ firstCfg # <<>> /\ last.cfg # firstCfg[1]
    /\ last.ret = singleton

IsPrefix(q, p) == Len(q) <= Len(p) /\ SubSeq(p, 1, Len(q)) = q

\* the deep merge of under and over, path by path: every path of over, and
\* the paths of under that no path of over runs along
DeepMerged(under, over) ==
    LET kept == {p \in DOMAIN under :
                    \A q \in DOMAIN over : ~IsPrefix(q, p) /\ ~IsPrefix(p, q)}
    IN  [p \in kept \cup DOMAIN over |-> IF p \in DOMAIN over THEN over[p] ELSE under[p]]

\* what a create() step returns: a new object, after all those built before
CreateReturnsNew ==
    last'.op = "create" =>
        /\ Len(instances') = Len(instances) + 1
        /\ SubSeq(instances', 1, Len(instances)) = instances
        /\ last'.ret = Len(instances')
        /\ last'.ret # last'.inst
        /\ last'.ret # singleton'
        /\ LET forced == [p \in DOMAIN last'.arg \cup {<<"useSingleton">>} |->
                             IF p = <<"useSingleton">> THEN "false" ELSE last'.arg[p]]
           IN  instances'[last'.ret].defaults
                  = DeepMerged(instances[last'.inst].defaults, forced)

\* C8: create(overrides) on any instance returns a new instance, distinct from
\* the parent and from every instance created before, whose defaults are the
\* parent's construction config deep-merged with overrides, useSingleton false.
C8_CreateIsNew == [][CreateReturnsNew]_vars

\* create() on the singleton with overrides that ask for the singleton
C8_Witness ==
    /\ last.op = "create"
    /\ last.inst = singleton
    /\ Get(last.arg, "useSingleton") = "true"
    /\ Get(instances[last.ret].defaults, "useSingleton") = "false"

----------------------------------------------------------------------------
(* Properties: the classifier *)

FalsyLeaves == {"", "false", "0", "undefined", "null"}

Present(o, k) == <<k>> \in DOMAIN o

Set(o, k) == Present(o, k) /\ o[<<k>>] \notin FalsyLeaves

\* the precedence table of the classifier, on the probed config
ClassifiedByPresence ==
    LET c == probe.config
        expected ==
            CASE Set(c, "name") /\ Set(c, "filePath") -> "wx.uploadFile"
              [] ~(Set(c, "name") /\ Set(c, "filePath"))
                 /\ ~Set(c, "name") /\ Present(c, "filePath") -> "wx.downloadFile"
              [] ~(Set(c, "name") /\ Set(c, "filePath"))
                 /\ ~(~Set(c, "name") /\ Present(c, "filePath"))
                 /\ Present(c, "protocols") -> "wx.connectSocket"
              [] OTHER -> "wx.request"
    IN  probe.adapterName # "" =>
            /\ probe.adapterName = expected
            /\ primitiveOf(probe.adapter) = probe.adapterName

\* C9: getDefaultAdapter classifies by field presence: name and filePath both
\* truthy gives upload; otherwise name falsy and filePath an own property (of
\* any value) gives download; otherwise protocols an own property gives socket;
\* otherwise plain request.  The adapterName matches the adapter function.
C9_Classifier == ClassifiedByPresence

\* {filePath: ''}: an own property holding the empty string selects download
C9_Witness ==
    /\ Present(probe.config, "filePath") /\ probe.config[<<"filePath">>] = ""
    /\ ~Present(probe.config, "name")
    /\ probe.adapterName = "wx.downloadFile"
    /\ probe.adapter = "downloadFileAdapter"

----------------------------------------------------------------------------
(* Properties: the request interceptors of a call *)

OnSide(log, side) == SelectSeq(log, LAMBDA x : x.side = side)

\* the invocations of fulfilled handlers of request interceptors, in order
RequestFulfilled(call) ==
    SelectSeq(call.log, LAMBDA x : x.side = "request" /\ x.handler = "fulfilled")

\* the ids of a manager that hold an entry
Live(h) == {id \in 0..(Len(h) - 1) : h[id + 1] # Tomb}

\* what the fulfilled handler of a request interceptor returned for its argument
Returned(h, x) ==
    IF h[x.uid].fulfilled = "pass" THEN Mark(x.arg, x.uid) ELSE Undefined

RequestOrder(call) ==
    LET h == instances[call.inst].request
        F == RequestFulfilled(call)
    IN  /\ \A j, k \in DOMAIN F : j < k => F[j].uid > F[k].uid
        /\ \A j \in DOMAIN F : F[j].uid - 1 \in Live(h)
        /\ F # <<>> => F[1].arg = call.merged
        /\ \A j \in DOMAIN F : j + 1 \in DOMAIN F => F[j + 1].arg = Returned(h, F[j])
        /\ (\A id \in Live(h) : h[id + 1].fulfilled \in {"pass", "void"})
              => Len(F) = Cardinality(Live(h))

\* C1: a request() call invokes the fulfilled handlers of the non-ejected
\* entries of interceptors.request in reverse registration order, the first
\* with the merged config and each next one with what the one before returned.
C1_ReverseOrder == \A c \in DOMAIN calls : RequestOrder(calls[c])

\* two entries: the second registered ran first, the first got its result
C1_Witness ==
    \E c \in DOMAIN calls :
        LET F == RequestFulfilled(calls[c])
        IN  /\ Len(F) = 2
            /\ F[1].uid = 2 /\ F[2].uid = 1
            /\ F[1].arg = calls[c].merged
            /\ F[2].arg.marks = <<2>>

\* the positions of the log where a fulfilled handler that throws was invoked
Throwers(call) ==
    {j \in DOMAIN call.log :
        /\ call.log[j].side = "request"
        /\ call.log[j].handler = "fulfilled"
        /\ instances[call.inst].request[call.log[j].uid].fulfilled = "throw"}

ThrowStopsChain(call) ==
    \A j \in Throwers(call) :
        LET log == call.log
            uid == log[j].uid
            mine == {k \in DOMAIN log : /\ log[k].side = "request"
                                        /\ log[k].handler = "rejected"
                                        /\ log[k].uid = uid}
        IN  /\ instances[call.inst].request[uid].rejected # "absent" =>
                  /\ mine = {j + 1}
                  /\ log[j + 1].arg = Thrown(uid)
            /\ \A k \in DOMAIN log : (k > j /\ log[k].side = "request") => k \in mine

\* C3: when the fulfilled handler of a request interceptor throws, the rejected
\* handler of the same use() call is invoked exactly once, with the thrown
\* value, and no request interceptor still waiting is invoked for that call.
C3_ThrowStopsChain == \A c \in DOMAIN calls : ThrowStopsChain(calls[c])

\* the second registered entry threw while the first was still waiting
C3_Witness ==
    \E c \in DOMAIN calls :
        LET call == calls[c]
            h == instances[call.inst].request
        IN  /\ Live(h) = {0, 1}
            /\ h[1].fulfilled = "pass"
            /\ Len(OnSide(call.log, "request")) = 2
            /\ call.log[1] = Invocation("request", "fulfilled", 2, call.merged)
            /\ call.log[2] = Invocation("request", "rejected", 2, Thrown(2))

\* C4: when the fulfilled handler of a request interceptor throws, request()
\* ends as a promise rejected with the interceptor's error and no host
\* networking primitive is invoked for that call.
C4_ThrowRejectsCall ==
    \A c \in DOMAIN calls :
        \A j \in Throwers(calls[c]) :
            /\ ~calls[c].escaped
            /\ calls[c].result = Rejected(Thrown(calls[c].log[j].uid))
            /\ calls[c].sent.primitive = "none"

----------------------------------------------------------------------------
(* Properties: the response interceptors of a call *)

StateFor(handler) == IF handler = "fulfilled" THEN "fulfilled" ELSE "rejected"

\* how the promise of one stage settles, from the handler that was invoked
StageOutcome(h, x) ==
    LET e == h[x.uid]
    IN  IF x.handler = "fulfilled"
        THEN CASE e.fulfilled = "pass" -> Fulfilled(Mark(x.arg, x.uid))
               [] e.fulfilled = "void" -> Fulfilled(Undefined)
               [] OTHER -> Rejected(Thrown(x.uid))
        ELSE CASE e.rejected = "ret" -> Fulfilled(Mark(x.arg, x.uid))
               [] OTHER -> Rejected(Mark(x.arg, x.uid))

\* the handler of entry e that a promise settled as `state` calls, if given
HandlerFor(e, state) == IF state = "fulfilled" THEN e.fulfilled ELSE e.rejected

ResponseChained(call) ==
    LET h == instances[call.inst].response
        R == OnSide(call.log, "response")
        \* what reaches the entry with this uid: the outcome of the last stage
        \* that ran before it, or the dispatch promise
        Before(uid) ==
            LET earlier == {j \in DOMAIN R : R[j].uid < uid}
            IN  IF earlier = {} THEN call.dispatchP
                ELSE StageOutcome(h, R[CHOOSE j \in earlier : \A k \in earlier : k <= j])
    IN  IF ~call.chained \/ call.dispatchP.state = "pending"
        THEN R = <<>> /\ (call.chained => call.result = Pending)
        ELSE /\ \A j, k \in DOMAIN R : j < k => R[j].uid < R[k].uid
             /\ \A j \in DOMAIN R :
                    /\ R[j].uid - 1 \in Live(h)
                    /\ R[j].arg = Before(R[j].uid).value
                    /\ StateFor(R[j].handler) = Before(R[j].uid).state
             /\ \A id \in Live(h) :
                    HandlerFor(h[id + 1], Before(id + 1).state) # "absent"
                       => \E j \in DOMAIN R : R[j].uid = id + 1
             /\ call.result = Before(Len(h) + 1)

\* C2: response interceptors run in registration order as a chain: each
\* non-ejected entry receives the value (fulfilled handler) or the error
\* (rejected handler) the stage before it produced, and the promise request()
\* returns settles as the last response interceptor leaves it, not as the
\* dispatcher does.
C2_ResponseChain == \A c \in DOMAIN calls : ResponseChained(calls[c])

\* the first entry threw on a response, the second recovered from that error
C2_Witness ==
    \E c \in DOMAIN calls :
        LET call == calls[c]
            R == OnSide(call.log, "response")
        IN  /\ call.dispatchP.state = "fulfilled"
            /\ Len(R) = 2
            /\ R[1] = Invocation("response", "fulfilled", 1, call.dispatchP.value)
            /\ R[2] = Invocation("response", "rejected", 2, Thrown(1))
            /\ call.result = Fulfilled(Mark(Thrown(1), 2))

----------------------------------------------------------------------------
(* Properties: ejected interceptors *)

EjectedSkipped(call) ==
    LET inst == instances[call.inst]
        h == inst.request
        R == OnSide(call.log, "response")
    IN  /\ \A j \in DOMAIN call.log :
               call.log[j].uid - 1 \notin inst.ejected[call.log[j].side]
        /\ \A id \in (0..(Len(h) - 1)) \ inst.ejected.request :
               (\A later \in (0..(Len(h) - 1)) \ inst.ejected.request :
                    later > id => h[later + 1].fulfilled # "throw")
               => \E j \in DOMAIN call.log :
                     /\ call.log[j].side = "request"
                     /\ call.log[j].handler = "fulfilled"
                     /\ call.log[j].uid = id + 1
        /\ (call.chained /\ call.result.state # "pending") =>
               \A id \in (0..(Len(inst.response) - 1)) \ inst.ejected.response :
                   Cardinality({j \in DOMAIN R : R[j].uid = id + 1}) = 1

\* C5: after eject(id) neither handler of the entry registered under id is
\* invoked by a request() call started afterwards, while every other entry is
\* still invoked (a request entry unless the chain stopped before it, a
\* response entry once the call settles).
C5_EjectedSkipped == \A c \in DOMAIN calls : EjectedSkipped(calls[c])

\* one entry ejected on each manager, the other one invoked by the call
C5_Witness ==
    \E c \in DOMAIN calls :
        LET call == calls[c]
            inst == instances[call.inst]
        IN  /\ inst.ejected.request = {0} /\ Len(inst.request) = 2
            /\ inst.ejected.response = {1} /\ Len(inst.response) = 2
            /\ \E j \in DOMAIN call.log : call.log[j].side = "request" /\ call.log[j].uid = 2
            /\ \E j \in DOMAIN call.log : call.log[j].side = "response" /\ call.log[j].uid = 1

----------------------------------------------------------------------------
(* Properties: settling the adapter promise *)

\* the state of the adapter promise follows from the callbacks fired so far:
\* the first of success and fail decides, complete never does
SettledByFirstCallback(call) ==
    LET deciding == {j \in DOMAIN call.events : call.events[j] \in {"success", "fail"}}
        first == CHOOSE j \in deciding : \A k \in deciding : j <= k
    IN  call.sent.primitive # "none" =>
            IF taskSettleThrows(call.config, call.sent.primitive)
            THEN call.adapterP = Rejected(ErrorValue("TypeError"))
            ELSE IF deciding = {} THEN call.adapterP = Pending
            ELSE call.adapterP.state =
                    (IF call.events[first] = "success" THEN "fulfilled" ELSE "rejected")

\* a settled adapter promise stays as it is
SettledOnce ==
    \A c \in DOMAIN calls :
        calls[c].adapterP.state # "pending" => calls'[c].adapterP = calls[c].adapterP

----------------------------------------------------------------------------
(* Transport errors *)

\* the calls the host failed while their adapter promise was pending and that
\* have no response interceptor
FailedCalls ==
    {c \in DOMAIN calls : /\ calls[c].chained
                          /\ calls[c].respChain = <<>>
                          /\ calls[c].settledBy.cb = "fail"}

----------------------------------------------------------------------------
(* Response post-processing *)

\* the calls the host answered with success while their adapter promise was
\* pending and that have no response interceptor
SucceededCalls ==
    {c \in DOMAIN calls : /\ calls[c].chained
                          /\ calls[c].respChain = <<>>
                          /\ calls[c].settledBy.cb = "success"}

\* what the success callback resolves the adapter promise with: res || {}
ResponseOf(call) ==
    IF call.settledBy.payload.prim \in Falsy THEN ObjValue(EmptyObj)
    ELSE call.settledBy.payload

\* the three conditions of the JSON coercion
ParsingApplies(call) ==
    /\ validateStatus(Get(ResponseOf(call).obj, "statusCode"))
    /\ Truthy(call.config, "forcedJSONParsing")
    /\ Get(ResponseOf(call).obj, "data") \in StringLeaves

JSONCoercion(call) ==
    LET response == ResponseOf(call)
        body == Get(response.obj, "data")
    IN  IF ParsingApplies(call)
        THEN IF JSONparse(body) = "SyntaxError"
             THEN call.result = Rejected(ErrorValue("Error:parse"))
             ELSE /\ call.result.state = "fulfilled"
                  /\ Get(call.result.value.obj, "data") = JSONparse(body)
                  /\ Get(call.result.value.obj, "statusCode") = Get(response.obj, "statusCode")
        ELSE call.result = Fulfilled(response)

\* C12: on host success response.data is replaced by its JSON parse exactly
\* when validateStatus(statusCode) holds, forcedJSONParsing is enabled and the
\* body is a string; under those conditions a malformed body rejects the
\* request promise with the data-parsing error; otherwise the body is
\* delivered unparsed.
C12_JSONCoercion == \A c \in SucceededCalls : JSONCoercion(calls[c])

\* a 200 response whose JSON text was delivered parsed
C12_Witness ==
    \E c \in SucceededCalls :
        /\ ParsingApplies(calls[c])
        /\ calls[c].result.state = "fulfilled"
        /\ Get(calls[c].result.value.obj, "data") = "parsed:{a:1}"
        /\ calls[c].events = <<"success">>

\* C13 as stated: a host success response whose statusCode does not satisfy
\* validateStatus makes the promise returned by request() reject.
C13_InvalidStatusRejects ==
    \A c \in SucceededCalls :
        ~validateStatus(Get(ResponseOf(calls[c]).obj, "statusCode"))
            => calls[c].result.state = "rejected"

----------------------------------------------------------------------------
(* Logging never breaks a request *)

\* the calls answered with success whose config has local logging switched on
LoggedCalls == {c \in SucceededCalls : Truthy(calls[c].config, "openLocalLogger")}

\* C14: with local logging enabled, a failure of the storage primitive during
\* log persistence (a read or write that throws, a read that returns an
\* unusable value) never changes the outcome of the request: the promise is
\* settled as it is when logging succeeds, by the response alone.
C14_LoggingInvisible ==
    \A c \in LoggedCalls :
        /\ calls[c].result =
               dispatchSettled(calls[c].config, Fulfilled(ResponseOf(calls[c])))
        /\ calls[c].result.state = "rejected"
               => calls[c].result.value = ErrorValue("Error:parse")

\* the set() call of a logged request threw, nothing was stored, and the
\* request was fulfilled with the parsed response
C14_Witness ==
    \E c \in LoggedCalls :
        /\ calls[c].logRun.threw
        /\ store = <<>>
        /\ calls[c].result.state = "fulfilled"
        /\ Get(calls[c].result.value.obj, "data") = "parsed:{a:1}"

----------------------------------------------------------------------------
(* The log store *)

DatesOf(st) == {st[j].date : j \in DOMAIN st}

\* at most MAX_LOG_DAY buckets, no date twice
BucketsBounded ==
    /\ Len(store) <= MAX_LOG_DAY
    /\ \A j, k \in DOMAIN store : store[j].date = store[k].date => j = k

\* a set() on a date that has no bucket, with MAX_LOG_DAY buckets stored:
\* the first bucket goes, the others stay in place, the new one comes last
OldestEvicted ==
    (/\ last'.op = "set"
     /\ Len(store) = MAX_LOG_DAY
     /\ today \notin DatesOf(store))
        => /\ Len(store') = MAX_LOG_DAY
           /\ SubSeq(store', 1, MAX_LOG_DAY - 1) = Tail(store)
           /\ store'[MAX_LOG_DAY].date = today

\* C15: starting from an empty store, after any sequence of LogManager.set
\* calls over any sequence of dates the store holds at most 7 date buckets,
\* no two buckets share a date, and when a new date would exceed the bound it
\* is the oldest bucket (the first of the sequence) that is evicted.
C15_BucketsBounded ==
    /\ []BucketsBounded
    /\ [][OldestEvicted]_vars

\* eight dates were written, the second of them on a clock set back: the
\* bucket written first (day 2) is gone, the one of day 1 is still there
C15_Witness ==
    /\ writes = 8
    /\ last.op = "set"
    /\ [j \in DOMAIN store |-> store[j].date] = <<1, 3, 4, 5, 6, 7, 8>>

\* every bucket holds at most MAX_LOG_COUNTS values, in the order of writing
EntriesBounded ==
    \A j \in DOMAIN store :
        /\ Len(store[j].logs) <= MAX_LOG_COUNTS
        /\ \A a, b \in DOMAIN store[j].logs :
               a < b => store[j].logs[a][1] < store[j].logs[b][1]

\* a set() on the date of a full bucket drops the first value of that bucket
\* and puts the new one last
OldestEntryDropped ==
    \A j \in DOMAIN store :
        (/\ last'.op = "set"
         /\ store[j].date = today
         /\ Len(store[j].logs) = MAX_LOG_COUNTS)
            => /\ Len(store') = Len(store)
               /\ Len(store'[j].logs) = MAX_LOG_COUNTS
               /\ SubSeq(store'[j].logs, 1, MAX_LOG_COUNTS - 1) = Tail(store[j].logs)
               /\ store'[j].logs[MAX_LOG_COUNTS][1] = writes + 1

\* C16: after any sequence of LogManager.set calls every date bucket holds at
\* most 300 entries in write order; writing a 301st entry into a bucket
\* removes that bucket's oldest entry and keeps the other 299 plus the new one.
C16_EntriesBounded ==
    /\ []EntriesBounded
    /\ [][OldestEntryDropped]_vars

\* the 301st value has been written: the bucket holds the values 2 to 301
C16_Witness ==
    /\ writes = MAX_LOG_COUNTS + 1
    /\ Len(store) = 1
    /\ Len(store[1].logs) = MAX_LOG_COUNTS
    /\ store[1].logs[1][1] = 2
    /\ store[1].logs[MAX_LOG_COUNTS][1] = MAX_LOG_COUNTS + 1

----------------------------------------------------------------------------
(* The verb aliases *)

\* the call an alias has just made, when it made one
AliasCall == calls[Len(calls)]

\* C17: a verb alias called as alias(url, data, config) forwards its data:
\* for post and put the request reaching the dispatcher carries the
\* positional data argument as config.data, both when a config argument is
\* given and when it is omitted.
C17_AliasForwardsData ==
    (/\ last.op = "alias"
     /\ last.alias.name \in {"post", "put"}
     /\ last.alias.url.prim # "obj"
     /\ last.alias.data.prim = "obj")
        => /\ ~last.alias.threw
           /\ AliasCall.dispatched
           /\ GetValue(AliasCall.newConfig.obj, "data") = last.alias.data

\* C18: the client exposes one verb alias for each of get, post, put,
\* delete, head, options and patch, and a call through an alias dispatches a
\* request whose method is the upper-case name of that alias, even when the
\* supplied config carries a different method.
C18_AliasPerVerb ==
    (last.op = "alias" /\ last.alias.name \in DocumentedAliases)
        => /\ ~last.alias.threw
           /\ AliasCall.dispatched
           /\ AliasCall.sent.method = toUpperCase(last.alias.name)

----------------------------------------------------------------------------
(* The method of a request *)

\* the method the call is to have: the per-call one when given, else the
\* instance default, else GET, in upper case, and GET when not recognized
ExpectedMethod(call) ==
    LET instDefaults == instances[call.inst].defaults
        given == IF Truthy(call.arg, "method") THEN Get(call.arg, "method")
                 ELSE IF Truthy(instDefaults, "method") THEN Get(instDefaults, "method")
                 ELSE "GET"
        upper == toUpperCase(given)
    IN  IF upper \in {"OPTIONS", "GET", "HEAD", "POST", "PUT", "DELETE"} THEN upper ELSE "GET"

\* C19: for every request() call, the method seen by the first request
\* interceptor (and by the dispatcher when no interceptor changes it) is the
\* upper-cased per-call method if given, else the upper-cased instance-default
\* method, else GET, and any value outside the recognized method set is
\* replaced by GET; the method is always a member of the recognized set.
C19_MethodNormalised ==
    \A c \in DOMAIN calls :
        /\ Get(calls[c].merged.obj, "method") = ExpectedMethod(calls[c])
        /\ Get(calls[c].merged.obj, "method") \in MethodSet
        /\ (calls[c].dispatched /\ calls[c].reqChain = <<>>)
               => Get(calls[c].newConfig.obj, "method") = ExpectedMethod(calls[c])

\* a call with an empty per-call method on an instance whose default method
\* is Put was dispatched as PUT
C19_Witness ==
    \E c \in DOMAIN calls :
        /\ Get(calls[c].arg, "method") = ""
        /\ Get(instances[calls[c].inst].defaults, "method") = "Put"
        /\ calls[c].dispatched
        /\ calls[c].sent.method = "PUT"

----------------------------------------------------------------------------
(* The header of a request *)

LayerNames == {"common", "OPTIONS", "GET", "HEAD", "POST", "PUT", "DELETE"}

\* the entry k of the layers of header h for method m: the explicit entry,
\* else the one of h[m], else the one of h.common
LayeredEntry(h, m, k) ==
    IF <<k>> \in DOMAIN h THEN h[<<k>>]
    ELSE IF <<m, k>> \in DOMAIN h THEN h[<<m, k>>]
    ELSE h[<<"common", k>>]

\* the names the layers of header h for method m give an entry to
LayeredKeys(h, m) ==
    ({p[1] : p \in {q \in DOMAIN h : Len(q) = 1}}
        \cup {p[2] : p \in {q \in DOMAIN h : Len(q) = 2 /\ q[1] \in {m, "common"}}})
    \ LayerNames

\* calls that went through wx.request with the config of request() unchanged
\* by interceptors
PlainCalls ==
    {c \in DOMAIN calls : /\ calls[c].dispatched
                          /\ calls[c].reqChain = <<>>
                          /\ calls[c].sent.primitive = "wx.request"}

\* C20: the header mapping handed to the adapter is the merge of
\* header.common, then header[method] for the request's method, then the
\* explicit top-level header entries (later layers win on a shared key), and
\* it contains neither the key common nor any key named after a recognized
\* method.
C20_HeaderLayers ==
    \A c \in PlainCalls :
        LET h == Sub(calls[c].merged.obj, "header")
            m == Get(calls[c].merged.obj, "method")
            handed == Sub(calls[c].config, "header")
        IN  /\ DOMAIN handed = {<<k>> : k \in LayeredKeys(h, m)}
            /\ \A k \in LayeredKeys(h, m) : handed[<<k>>] = LayeredEntry(h, m, k)
            /\ TopKeys(handed) \cap LayerNames = {}
            /\ calls[c].sent.header = handed

\* a POST call whose header has an entry in one, two and three layers: the
\* adapter got the entry of the last layer that has it
C20_Witness ==
    \E c \in PlainCalls :
        /\ Get(calls[c].arg, "method") = "post"
        /\ <<"header", "POST", "k3">> \in DOMAIN calls[c].arg
        /\ calls[c].sent.header = (<<"content-type">> :> "application/json")
                                    @@ (<<"k1">> :> "common")
                                    @@ (<<"k2">> :> "post")
                                    @@ (<<"k3">> :> "top")

----------------------------------------------------------------------------
(* Configuration errors and the transport aliases *)

\* the arguments of the last uploadFile call hold a non-empty k: in the
\* position of k, or in the plain object among them
Supplied(k, position) ==
    LET args == last.alias.args
    IN  \/ args[position].prim # "obj" /\ truthyValue(args[position])
        \/ \E j \in DOMAIN args : args[j].prim = "obj" /\ Truthy(args[j].obj, k)

\* C21: configuration errors fail fast: request() called without a config,
\* and uploadFile called with a missing or empty name or filePath, throw
\* synchronously to the caller, and in both cases no host networking
\* primitive is invoked.
C21_ConfigErrorsFailFast ==
    /\ (last.op = "request" /\ last.alias.config.prim \in {"undefined", "null"})
           => (last.alias.threw /\ calls = <<>>)
    /\ (/\ last.op = "alias" /\ last.alias.name = "uploadFile"
        /\ ~(Supplied("filePath", 2) /\ Supplied("name", 3)))
           => (last.alias.threw /\ calls = <<>>)

\* uploadFile was called with a path and without a name, and threw
C21_Witness ==
    /\ last.op = "alias" /\ last.alias.name = "uploadFile"
    /\ last.alias.args = <<Scalar("/u"), Scalar("s"), Undefined, ObjValue(<<"timeout">> :> "5")>>
    /\ last.alias.threw
    /\ calls = <<>>

----------------------------------------------------------------------------
(* The task bridge *)

\* calls whose adapter has invoked its host primitive
SentCalls == {c \in DOMAIN calls : calls[c].dispatched /\ calls[c].sent.primitive # "none"}

\* the task spec of a call, as the adapter got it
TaskOf(call) == IF IsPlainAt(call.config, "task") THEN Sub(call.config, "task") ELSE EmptyObj

\* the keys of a task spec whose values are functions
FunctionKeys(task) == {k \in TopKeys(task) : Get(task, k) = "fn:handler"}

CallbackKeys ==
    {"onProgressUpdate", "offProgressUpdate", "onHeadersReceived", "offHeadersReceived",
     "onChunkReceived", "offChunkReceived", "onOpen", "onMessage", "onError", "onClose"}

ControlKeys == {"abort", "close", "send"}

\* the entries of a sequence of records that carry the key k
OfKey(q, k) == SelectSeq(q, LAMBDA e : e.key = k)

\* C22: for every function-valued task-spec key naming a callback-style
\* event, the bridge registers exactly one listener on the host task handle
\* through the handle's method of that name, and each time the host fires
\* that event with payload p the user handler is invoked exactly once with
\* (p, taskHandle).
C22_OneListenerPerKey ==
    \A c \in SentCalls :
        \A k \in FunctionKeys(TaskOf(calls[c])) \cap CallbackKeys :
            /\ Len(SelectSeq(calls[c].sent.bridge.listeners, LAMBDA l : l = k)) = 1
            /\ OfKey(calls[c].eventCalls, k) =
                   [j \in DOMAIN OfKey(calls[c].fired, k) |->
                       [key |-> k, args |-> <<OfKey(calls[c].fired, k)[j].res, RequestTask>>]]

\* C23: for every function-valued control key (abort, close, send) of the
\* task spec, the user handler is invoked exactly once per request,
\* immediately and synchronously at dispatch, with the host task handle as its
\* sole argument; the library itself never calls abort, close or send on the
\* handle.
C23_ControlKeysAtDispatch ==
    \A c \in SentCalls :
        /\ \A k \in FunctionKeys(TaskOf(calls[c])) \cap ControlKeys :
               /\ OfKey(calls[c].sent.bridge.invoked, k) = <<[key |-> k, args |-> <<RequestTask>>]>>
               /\ OfKey(calls[c].eventCalls, k) = <<>>
        /\ \A j \in DOMAIN calls[c].sent.bridge.listeners :
               calls[c].sent.bridge.listeners[j] \notin ControlKeys

\* the bridge has run in the step that dispatches the call, before any host
\* callback, and no later step changes what it has done
BridgedAtDispatch ==
    \A c \in DOMAIN calls' :
        (/\ calls'[c].dispatched /\ calls'[c].sent.primitive # "none"
         /\ Truthy(calls'[c].config, "task"))
            => /\ calls'[c].sent.bridge.ran
               /\ IF c \in DOMAIN calls
                  THEN calls'[c].sent.bridge = calls[c].sent.bridge
                  ELSE calls'[c].events = <<>> /\ calls'[c].settledBy = NoSettler

\* C24: for every adapter, when config.task is present the host task handle
\* is bridged synchronously at dispatch time, before the request promise
\* settles, for every timing at which the host may invoke its success or fail
\* callback.
C24_BridgedAtDispatch == [][BridgedAtDispatch]_vars

\* a socket call whose bridge registered two listeners and called two control
\* handlers was settled by the success callback after a task event
C24_Witness ==
    \E c \in SentCalls :
        /\ calls[c].sent.primitive = "wx.connectSocket"
        /\ calls[c].sent.bridge.listeners = <<"onOpen", "onMessage">>
        /\ Len(calls[c].sent.bridge.invoked) = 2
        /\ Len(calls[c].fired) = 1
        /\ calls[c].settledBy.cb = "success"

\* C25: a task-spec entry whose key is neither a known callback-style event
\* nor one of abort, close, send, or whose value is not a function, is
\* ignored: its value is never invoked and nothing is registered on the task
\* handle for it.
C25_OtherEntriesIgnored ==
    \A c \in SentCalls :
        \A k \in TopKeys(TaskOf(calls[c])) :
            (k \notin CallbackKeys \cup ControlKeys \/ k \notin FunctionKeys(TaskOf(calls[c])))
                => /\ OfKey(calls[c].sent.bridge.invoked, k) = <<>>
                   /\ OfKey(calls[c].eventCalls, k) = <<>>
                   /\ \A j \in DOMAIN calls[c].sent.bridge.listeners :
                          calls[c].sent.bridge.listeners[j] # k

----------------------------------------------------------------------------
(* utils.merge: what it shares with its sources *)

RECURSIVE Owned(_, _, _)
\* the plain objects and arrays reached from the ids in todo through slots
\* of plain objects alone
Owned(h, todo, seen) ==
    IF todo = {} THEN seen
    ELSE LET id == CHOOSE x \in todo : TRUE
             next == IF h[id].kind # "map" THEN {}
                     ELSE {h[id].slots[k].r :
                              k \in {j \in DOMAIN h[id].slots : h[id].slots[j].t = "r"}}
         IN  Owned(h, (todo \cup {n \in next : h[n].kind # "other"}) \ (seen \cup {id}),
                   seen \cup {id})

\* the objects of the sources are as they were before the call
SourcesUnchanged == \A id \in DOMAIN SourceHeap : helper.heap[id] = SourceHeap[id]

\* the result, the plain objects nested in it through plain objects, and the
\* arrays these hold are objects made by the call
ResultIsNew ==
    \A id \in Owned(helper.heap, {helper.result}, {}) : id \notin DOMAIN SourceHeap

\* C26 as stated: merge(...sources) always returns a new mapping and leaves
\* every source unchanged, at every nesting depth of plain mappings; array
\* values in the result are copies, so that a later change to the result
\* (including its nested mappings and arrays) is never visible in a source.
C26_MergeSharesNothing ==
    (helper.fn = "merge" /\ ~helper.threw) => (ResultIsNew /\ SourcesUnchanged)

\* C26, amended: merge(...sources) always returns a new mapping and leaves
\* every source unchanged, at every nesting depth of plain mappings; array
\* values in the result are shallow copies: a later change to the result, to
\* a plain mapping nested in it through plain mappings, or to one of the
\* arrays these hold is never visible in a source, while an object that is an
\* element of an array is the same object in the result and in the source.
C26_MergeCopiesShallow ==
    (helper.fn = "merge" /\ ~helper.threw) =>
        /\ ResultIsNew
        /\ (helper.changed = 0 \/ helper.changed \in Owned(helper.heap, {helper.result}, {}))
               => SourcesUnchanged
        /\ \A id \in Owned(helper.heap, {helper.result}, {}) :
               helper.heap[id].kind = "arr" =>
                   \A k \in DOMAIN helper.heap[id].slots :
                       helper.heap[id].slots[k].t = "r" =>
                           helper.heap[id].slots[k].r \in DOMAIN SourceHeap

\* the two sources were merged and the mapping under h.n of the result, which
\* both sources have, was changed; the sources are as before
C26_Witness ==
    /\ helper.fn = "merge" /\ ~helper.threw
    /\ helper.sources = <<Ref(1), Ref(7)>>
    /\ helper.changed # 0
    /\ helper.changed =
          helper.heap[helper.heap[helper.result].slots["h"].r].slots["n"].r
    /\ DOMAIN helper.heap[helper.changed].slots = {"z", "w", "changed"}
    /\ SourcesUnchanged

RECURSIVE Flat(_, _, _)
\* the content of a slot: the scalars and the kinds of the objects under it,
\* with their paths
Flat(h, cell, path) ==
    IF cell.t = "s" THEN {[path |-> path, leaf |-> cell.s]}
    ELSE {[path |-> path, leaf |-> h[cell.r].kind]}
         \cup UNION {Flat(h, h[cell.r].slots[k], Append(path, k)) :
                        k \in DOMAIN h[cell.r].slots}

\* the sources that are objects
ObjectSources(sources) == SelectSeq(sources, LAMBDA c : c.t = "r")

\* C27: merge tolerates absent and null sources: a source that is null or
\* absent (undefined) in any position is skipped as if it were empty, without
\* raising an error, and the result equals the merge of the remaining sources.
C27_MergeSkipsAbsent ==
    (helper.fn = "merge" /\ helper.changed = 0) =>
        /\ ~helper.threw
        /\ Flat(helper.heap, Ref(helper.result), <<>>) =
              Flat(merge(SourceHeap, ObjectSources(helper.sources)).heap,
                   Ref(merge(SourceHeap, ObjectSources(helper.sources)).result), <<>>)

----------------------------------------------------------------------------
(* helpers.buildPathParam *)

RECURSIVE JoinPairs(_)
\* the k=v pairs of the entries that are no callbacks, joined by '&'
JoinPairs(params) ==
    IF params = <<>> THEN <<>>
    ELSE IF params[1].fn THEN JoinPairs(Tail(params))
    ELSE params[1].key \o <<"=">> \o params[1].value
         \o (IF JoinPairs(Tail(params)) = <<>> THEN <<>> ELSE <<"&">> \o JoinPairs(Tail(params)))

\* C28: buildPathParam(url, params) with a plain-mapping params returns url
\* followed directly by '?' and the k=v pairs joined by '&' (so
\* buildPathParam('/a/b', {x:1,y:2}) is '/a/b?x=1&y=2'), skipping
\* callback-valued entries; when url already contains '=' the first pair is
\* prefixed by '&'.
C28_QueryAppended ==
    (helper.fn = "buildPathParam" /\ helper.url # <<>>) =>
        helper.out = helper.url \o <<"?">>
                        \o (IF hasEquals(helper.url) /\ JoinPairs(helper.params) # <<>>
                            THEN <<"&">> ELSE <<>>)
                        \o JoinPairs(helper.params)

----------------------------------------------------------------------------
(* Instance defaults *)

\* C29: no request made through an instance, by request() or any alias,
\* through any adapter, answered by success or by failure, changes the
\* instance's defaults: defaults and every nested mapping in it keep the values
\* they had at construction.
C29_DefaultsUnchanged ==
    /\ \A i \in DOMAIN instances : instances[i].defaults = instances[i].createCfg
    /\ instances[1].defaults = firstCfg[1]

\* an upload through a created instance failed: the adapter has written the
\* multipart content type into the header it sent, and the instance's header
\* defaults still hold their own content type
C29_Witness ==
    \E c \in DOMAIN calls :
        /\ calls[c].inst > 1
        /\ calls[c].sent.primitive = "wx.uploadFile"
        /\ calls[c].sent.header[<<"content-type">>] = "multipart/form-data"
        /\ calls[c].settledBy.cb = "fail"
        /\ Get(Sub(Sub(instances[calls[c].inst].defaults, "header"), "common"),
               "content-type") = "application/json"
        /\ Get(Sub(Sub(instances[calls[c].inst].defaults, "header"), "common"), "token") = "t"

----------------------------------------------------------------------------
(* Transport aliases and the host primitive *)

\* the host primitive a transport alias is named after
MatchingPrimitive ==
    [uploadFile |-> "wx.uploadFile", downloadFile |-> "wx.downloadFile",
     connectSocket |-> "wx.connectSocket"]

\* C30: every call through a transport alias that reaches the dispatcher is
\* sent through the matching host primitive and no other (uploadFile through
\* wx.uploadFile, downloadFile through wx.downloadFile, connectSocket through
\* wx.connectSocket), whatever other fields the supplied config carries, as
\* long as no request interceptor alters the config.
C30_AliasPicksPrimitive ==
    (last.op = "alias" /\ last.alias.name \in DOMAIN MatchingPrimitive) =>
        \A c \in DOMAIN calls :
            (calls[c].dispatched /\ calls[c].reqChain = <<>>) =>
                calls[c].sent.primitive = MatchingPrimitive[last.alias.name]

----------------------------------------------------------------------------
(* The stages of one request() call *)

\* the positions of stage name in the stages of a call
At(call, name) == {k \in DOMAIN call.stages : call.stages[k] = name}

\* every position of stage a lies before every position of stage b
Before(call, a, b) == \A i \in At(call, a), j \in At(call, b) : i < j

\* stage b happens only after some stage a
OnlyAfter(call, a, b) == \A j \in At(call, b) : \E i \in At(call, a) : i < j

\* C31: within one request() call every request-interceptor handler completes
\* before the adapter is selected and the host primitive is invoked; the host
\* primitive is invoked before the task bridge runs; response post-processing
\* happens only after the host success callback; and every
\* response-interceptor handler runs after post-processing and before the
\* caller observes settlement.
C31_StageOrder ==
    \A c \in DOMAIN calls :
        LET call == calls[c]
        IN  /\ Cardinality(At(call, "request")) + Cardinality(At(call, "response"))
                  = Len(call.log)
            /\ Before(call, "request", "adapter")
            /\ Before(call, "adapter", "primitive")
            /\ OnlyAfter(call, "primitive", "bridge")
            /\ Before(call, "primitive", "bridge")
            /\ OnlyAfter(call, "success", "onAdapterResolve")
            /\ Before(call, "onAdapterResolve", "response")
            /\ Before(call, "response", "settled")
            /\ (call.result.state # "pending") <=> (At(call, "settled") # {})

\* a call with a task spec that two request handlers and two response
\* handlers have seen, answered by success
C31_Witness ==
    \E c \in DOMAIN calls :
        /\ Cardinality(At(calls[c], "request")) = 2
        /\ Cardinality(At(calls[c], "response")) = 2
        /\ At(calls[c], "bridge") # {}
        /\ At(calls[c], "onAdapterResolve") # {}
        /\ calls[c].result.state # "pending"

----------------------------------------------------------------------------
(* The failure boundary around the dispatch *)

\* the calls whose dispatchRequest(newConfig) threw
DispatchThrew(call) == call.dispatched /\ ~call.chained

\* what dispatchRequest throws for the config the interceptor loop left
DispatchError(call) ==
    IF call.newConfig.prim # "obj" THEN ErrorValue("Error:nonConfig")
    ELSE ErrorValue("TypeError")

\* C32: a synchronous throw during dispatch (a request interceptor that
\* returned no config, an adapter that throws before building its promise)
\* never escapes request() as an exception: request() returns a promise
\* rejected with the thrown value.
C32_DispatchThrowRejects ==
    \A c \in DOMAIN calls :
        DispatchThrew(calls[c]) =>
            /\ ~calls[c].escaped
            /\ calls[c].result = Rejected(DispatchError(calls[c]))
            /\ calls[c].sent.primitive = "none"

\* a request interceptor returned nothing, and request() returned a promise
\* rejected with the error dispatchRequest raised for the missing config
C32_Witness ==
    \E c \in DOMAIN calls :
        /\ DispatchThrew(calls[c])
        /\ calls[c].newConfig = Undefined
        /\ \E k \in DOMAIN calls[c].reqChain : calls[c].reqChain[k].fulfilled = "void"
        /\ calls[c].result = Rejected(ErrorValue("Error:nonConfig"))

----------------------------------------------------------------------------
(* Interceptor managers are per instance *)

\* the handlers of both managers of instance i
ManagersOf(insts, i) == [request |-> insts[i].request, response |-> insts[i].response]

\* a step changes the managers of no instance but the one it was called on,
\* and a new instance starts without handlers
ManagersApart ==
    /\ \A j \in DOMAIN instances :
           ManagersOf(instances', j) # ManagersOf(instances, j) =>
               last'.op \in {"use", "eject"} /\ last'.inst = j
    /\ \A j \in DOMAIN instances' \ DOMAIN instances :
           ManagersOf(instances', j) = [request |-> <<>>, response |-> <<>>]

\* a request that starts takes the handlers of the instance it is made through
OwnHandlers ==
    \A c \in DOMAIN calls' \ DOMAIN calls :
        /\ calls'[c].reqChain = requestInterceptors(instances[calls'[c].inst].request)
        /\ calls'[c].respChain = responseInterceptors(instances[calls'[c].inst].response)

\* the handlers a call invokes are among those it took
InvokedAreOwn ==
    \A c \in DOMAIN calls' : \A k \in DOMAIN calls'[c].log :
        LET inv == calls'[c].log[k]
            chain == IF inv.side = "request" THEN calls'[c].reqChain ELSE calls'[c].respChain
        IN  \E e \in DOMAIN chain : chain[e].uid = inv.uid

\* C34: interceptor managers are per instance: an interceptor registered on an
\* instance obtained from create() is never invoked for a request made through
\* the parent or through a sibling, and an interceptor registered on the
\* parent is never invoked for a request made through the child, in any order
\* of registrations and requests.
C34_ManagersPerInstance == [][ManagersApart /\ OwnHandlers /\ InvokedAreOwn]_vars

\* the parent holds two request handlers, a child two response handlers and
\* its sibling one of each; a request through the first child, answered, has
\* invoked the two response handlers of that child and nothing else
C34_Witness ==
    /\ Len(instances) = 3
    /\ Len(instances[1].request) = 2
    /\ Len(instances[2].response) = 2
    /\ Len(instances[3].request) = 1 /\ Len(instances[3].response) = 1
    /\ Len(calls) = 1
    /\ calls[1].inst = 2
    /\ calls[1].result.state = "fulfilled"
    /\ Len(calls[1].log) = 2
    /\ \A k \in DOMAIN calls[1].log : calls[1].log[k].side = "response"

----------------------------------------------------------------------------
(* The interceptors of a request are those of the time of the call *)

\* a call keeps the handlers it took, and when it settles it has run the
\* response handlers it took when request() was called
FixedAtCall ==
    \A c \in DOMAIN calls :
        /\ calls'[c].reqChain = calls[c].reqChain
        /\ calls'[c].respChain = calls[c].respChain
        /\ (calls[c].result.state = "pending" /\ calls'[c].result.state # "pending") =>
               LET ran == responseChain(calls'[c].dispatchP, calls[c].respChain, calls[c].log)
               IN  calls'[c].log = ran.log /\ calls'[c].result = ran.p

\* C35: the set of interceptors applied to a request is fixed when request()
\* is called: a use() or eject() performed while the request is in flight does
\* not change which response interceptors run for that request, and affects
\* only requests started later.
C35_FixedAtCall == [][FixedAtCall /\ OwnHandlers]_vars

\* the response uids a call has invoked
ResponseUids(call) ==
    {call.log[k].uid : k \in {j \in DOMAIN call.log : call.log[j].side = "response"}}

\* while the first request was in flight its one response handler was ejected
\* and another was registered: the first request has run the ejected handler
\* and not the new one, the second request the new one only
C35_Witness ==
    /\ Len(calls) = 2
    /\ calls[1].result.state # "pending" /\ calls[2].result.state # "pending"
    /\ Len(instances[1].response) = 2
    /\ instances[1].response[1] = Tomb
    /\ ResponseUids(calls[1]) = {1}
    /\ ResponseUids(calls[2]) = {2}

----------------------------------------------------------------------------
(* A set() on a date that has a bucket *)

\* a set() on a date that has a bucket appends to that bucket and leaves
\* every other bucket where and as it is
AppendOnly ==
    (last'.op = "set" /\ today \in DatesOf(store)) =>
        /\ Len(store') = Len(store)
        /\ \A j \in DOMAIN store :
              /\ store'[j].date = store[j].date
              /\ store[j].date # today => store'[j] = store[j]
              /\ store[j].date = today =>
                     store'[j].logs[Len(store'[j].logs)][1] = writes + 1

\* C36: a LogManager.set call whose date already has a bucket in the store
\* only appends to that bucket: it never removes the bucket of another date,
\* whatever the number of buckets currently stored.
C36_AppendOnly == [][AppendOnly]_vars

----------------------------------------------------------------------------
(* A task spec and the settlement of the request *)

\* the callbacks among the events of a call that can settle it
Settling(call) == {k \in DOMAIN call.events : call.events[k] \in {"success", "fail"}}

\* the same request without its task spec
Untasked(call) == request(call.inst, Without(call.arg, "task"))

\* C37: supplying a task spec whose handlers do not throw never changes how
\* the request settles: once the host primitive has been invoked, the request
\* promise resolves or rejects according to the host's success or fail
\* callback exactly as it would without the task spec, for every adapter and
\* every callback-style key in the spec, including keys naming events the
\* adapter's task handle does not expose.
C37_TaskLeavesSettlement ==
    \A c \in DOMAIN calls :
        calls[c].sent.primitive # "none" =>
            IF Settling(calls[c]) = {}
            THEN calls[c].result.state = "pending"
            ELSE /\ calls[c].settledBy.cb # "none"
                 /\ calls[c].result =
                       hostCallback(Untasked(calls[c]), calls[c].settledBy.cb,
                                    calls[c].settledBy.payload, calls[c].logRun).result

----------------------------------------------------------------------------
(* The objects the caller hands to the entry points *)

\* C38 as stated: the public entry points leave caller-supplied config
\* objects unchanged: after request(url, cfg), request(cfg), any alias call or
\* create(overrides), the object the caller passed as cfg or overrides has
\* the same keys and values as before the call.
C38_ArgumentsUnchanged ==
    \A k \in DOMAIN last.passed : last.passed[k].after = last.passed[k].before

\* the one key an entry point writes into the object it was handed
WrittenKey == IF last.op = "create" THEN "useSingleton" ELSE "url"

\* C38, amended: request(cfg) and every alias call leave the objects the
\* caller passed unchanged; request(url, cfg) changes nothing in cfg but its
\* url, which becomes the first argument, and create(overrides) nothing in
\* overrides but useSingleton, which becomes false.
C38_OneKeyWritten ==
    \A k \in DOMAIN last.passed :
        LET p == last.passed[k]
        IN  IF last.op \in {"create", "request"}
            THEN /\ Without(p.after, WrittenKey) = Without(p.before, WrittenKey)
                 /\ Get(p.after, WrittenKey)
                       = (IF last.op = "create" THEN "false"
                          ELSE last.alias.url.prim)
            ELSE p.after = p.before

\* request('/v', cfg) with a cfg that holds a method and data: the call went
\* out with the method of cfg, and cfg has gained the url and kept the rest
C38_Witness ==
    /\ last.op = "request"
    /\ Len(last.passed) = 1
    /\ Get(last.passed[1].before, "method") = "get"
    /\ ~HasOwn(last.passed[1].before, "url")
    /\ Get(last.passed[1].after, "url") = "/v"
    /\ Get(last.passed[1].after, "method") = "get"
    /\ calls # <<>> /\ calls[1].sent.method = "GET"

----------------------------------------------------------------------------
(* Settlement and the callbacks of the host *)

\* C39: if request() returned a promise and the host primitive invokes its
\* success or its fail callback, then (with interceptor handlers that return
\* synchronously) the promise returned by request() settles; if the host
\* invokes only the complete callback, the promise never settles.
C39_SettledByHostAnswer ==
    \A c \in DOMAIN calls :
        calls[c].sent.primitive # "none" =>
            /\ Settling(calls[c]) # {} => calls[c].result.state # "pending"
            /\ (calls[c].events # <<>> /\ Settling(calls[c]) = {}) =>
                   calls[c].result.state = "pending"

====
